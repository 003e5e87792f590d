---------------------------- MODULE MCImportRows ----------------------------
(* ImportRows with two rules whose caps overlap and with rows on both      *)
(* sides of every bound of the checks.                                     *)
EXTENDS ImportRows, TLC

CONSTANTS r1, r2

MCRuleRequests == {r1, r2}

MCUnit == 4
StepOf(l, u, r) == [lower |-> l, upper |-> u, rate |-> r]
MCContents == {
  [price_cap_lower |-> 0, price_cap_upper |-> 4, deviation_formula_type |-> "stepped",
   deviation_formula_params |->
     [exemption |-> 1, steps |-> <<StepOf(0, 2, 1), StepOf(1, 3, 2), StepOf(3, 4, 1)>>]],
  [price_cap_lower |-> 2, price_cap_upper |-> 6, deviation_formula_type |-> "proportional",
   deviation_formula_params |-> [exemption |-> 1, rate |-> 2]]}

Num(n) == [is |-> "number", n |-> n]
Loose(n) == [is |-> "loose", n |-> n]
Not(what) == [is |-> what, n |-> 0]

Price(d, p, v) == [trading_date |-> d, period |-> p, clearing_price |-> v]
Output(d, p, v) == [trading_date |-> d, period |-> p, actual_output_kw |-> v]
Storage(d, p, s, c) == [trading_date |-> d, period |-> p, soc |-> s, charge_power_kw |-> c,
                        discharge_power_kw |-> Num(0), cycle_count |-> Num(1)]

MCRows == [
  trading_data |-> {
    Price(Num(1), Num(1), Num(1)), Price(Num(1), Num(1), Num(5)),
    Price(Num(1), Num(2), Num(900))},
  station_output |-> {
    Output(Loose(1), Num(2), Num(7)), Output(Num(1), Num(0), Num(-1)),
    Output(Not("text"), Num(1), Not("NaN"))},
  storage_operation |-> {
    Storage(Num(1), Num(2), Num(1), Num(1)), Storage(Loose(1), Num(2), Num(4), Not("blank")),
    Storage(Num(2), Num(1), Num(3), Num(0)), Storage(Num(1), Num(1), Num(5), Num(0)),
    Storage(Num(1), Num(1), Num(1), Num(-1)),
    Storage(Num(2), Num(1), Num(2), Not("Infinity"))}]

Requests == Permutations(MCRuleRequests)
=============================================================================
