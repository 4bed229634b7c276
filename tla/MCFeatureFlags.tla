--------------------------- MODULE MCFeatureFlags ----------------------------
(* One flag, as no call touches two, and one customer, who has an override *)
(* or none; two calls at a time, as many as a race takes, of which two may *)
(* be updates and any number lookups.                                      *)
EXTENDS FeatureFlags
=============================================================================
