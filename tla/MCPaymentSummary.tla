--------------------------- MODULE MCPaymentSummary ---------------------------
(* Model checking of PaymentSummary on small instances.                    *)
EXTENDS PaymentSummary

\* Two payments of the same time, which have equal keys, and a later one.
MCPayments    == {"early", "early2", "late"}
MCRequestedAt == [p \in MCPayments |-> IF p = "late" THEN 2 ELSE 1]

\* One date before 1970, one in the future, and those of the payments.
MCDates == {-1, 1, 2, 3}
=============================================================================
