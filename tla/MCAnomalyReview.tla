-------------------------- MODULE MCAnomalyReview --------------------------
(* AnomalyReview with two anomalies and two reviews of them.               *)
EXTENDS AnomalyReview

CONSTANTS a1, a2, t1, t2

MCAnomalies == {a1, a2}
MCReviews   == {t1, t2}
=============================================================================
