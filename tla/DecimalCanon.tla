---------------------------- MODULE DecimalCanon ----------------------------
(***************************************************************************)
(* tracking_adapter_canon.convert_and_verify: both routes from decimal     *)
(* text to exact rational, one after the other, and what is returned when  *)
(* both return the same.                                                   *)
(***************************************************************************)
EXTENDS DecimalRounding

VARIABLES
    text, places,  \* the arguments; nothing assigns them
    generator,     \* {k} once to_exact_rational returned k
    verifier,      \* the same for to_exact_rational_independent
    outcome        \* "pending", "InvalidOperation", "disagree" or "returned"

conversionVars == <<text, places, generator, verifier, outcome>>

InitConversion ==
    /\ text \in Text
    /\ places \in 0..MaxPlaces
    /\ generator = {}
    /\ verifier = {}
    /\ outcome = "pending"

\* (slip) The precision limits the text and not the result.
to_exact_rational_parsing ==
    /\ outcome = "pending"
    /\ generator = {}
    /\ IF TooLong(text.digits)
         THEN outcome' = "InvalidOperation" /\ UNCHANGED generator
         ELSE generator' = {Signed(text, Quantized(text, places))} /\ UNCHANGED outcome
    /\ UNCHANGED <<text, places, verifier>>

to_exact_rational ==
    /\ outcome = "pending"
    /\ generator = {}
    /\ IF TooLong(Quantized(text, places))
         THEN outcome' = "InvalidOperation" /\ UNCHANGED generator
         ELSE generator' = {Signed(text, Quantized(text, places))} /\ UNCHANGED outcome
    /\ UNCHANGED <<text, places, verifier>>

ConvertIndependently ==
    /\ outcome = "pending"
    /\ generator # {}
    /\ verifier = {}
    /\ verifier' = {Independent(text, places)}
    /\ UNCHANGED <<text, places, generator, outcome>>

CompareRoutes ==
    /\ outcome = "pending"
    /\ verifier # {}
    /\ outcome' = IF generator = verifier THEN "returned" ELSE "disagree"
    /\ UNCHANGED <<text, places, generator, verifier>>

Finished == outcome # "pending" /\ UNCHANGED conversionVars

NextConversion ==
    \/ to_exact_rational \/ ConvertIndependently \/ CompareRoutes
    \/ Finished

ConversionSpec == InitConversion /\ [][NextConversion]_conversionVars

----------------------------------------------------------------------------
\* Both routes return integers, once each, and the arguments stay what they are.
ConversionTypeOK ==
    /\ text \in Text
    /\ places \in 0..MaxPlaces
    /\ generator \in SUBSET Int
    /\ verifier \in SUBSET Int
    /\ outcome \in {"pending", "InvalidOperation", "disagree", "returned"}

(***************************************************************************)
(* The two routes round alike, negative numbers and ties included, so that *)
(* "decimal conversion routes disagree" is never raised.                   *)
(***************************************************************************)
RoutesAgree ==
    /\ generator # {} /\ verifier # {} => generator = verifier
    /\ outcome # "disagree"

Distance(i) == IF i < 0 THEN -i ELSE i

(***************************************************************************)
(* What each route computes, and so what is returned, is a multiple of     *)
(* 10^-places nearest to the number the text spells, the even one of two   *)
(* that are equally near.                                                  *)
(***************************************************************************)
NearestEven ==
    \A k \in generator \cup verifier :
        LET off == 2 * Distance(k * 10^text.fraction - Signed(text, text.digits) * 10^places)
        IN /\ off <= 10^text.fraction
           /\ off = 10^text.fraction => k % 2 = 0

(***************************************************************************)
(* The generator's refusal, which the verifier knows nothing of, concerns  *)
(* only results of more digits than a decimal.Context holds.               *)
(***************************************************************************)
RefusedOnlyTooLong ==
    outcome = "InvalidOperation" => TooLong(Distance(Independent(text, places)))
=============================================================================
