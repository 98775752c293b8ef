----------------------------- MODULE MCSignup -----------------------------
(* Values for the constants of Signup: three signups for one phone, two of *)
(* them typed as the geocoder spells the address, and an opt-out of it.    *)
EXTENDS Signup

Three == {1, 2, 3}
Two == {1, 2}
Stop == {4}
OnePhone == [t \in Requests |-> "p"]
(* The dashboard writes the number as the form stores it, or plainly; the  *)
(* opt-out comes from the telephone.                                       *)
Written == {[t \in Requests |-> IF t = 3 THEN f ELSE IF t = 4 THEN "long" ELSE "free"] :
              f \in {"e164", "free"}}
OneAccount == [s \in Signups |-> "a"]
Second == {2}
Third == {3}
Typed == [s \in Signups |-> IF s = 3 THEN "street" ELSE "st"]
Official == [s \in Signups |-> "st"]
=============================================================================
