------------------------------ MODULE Receipts ------------------------------
(***************************************************************************)
(* The fingerprint of a receipt (internal/platform/ai/receipt.go): what    *)
(* tells two photos of one ticket from photos of two tickets.              *)
(*                                                                         *)
(* A field is a record of the value the ticket shows and the form in which *)
(* the extractor wrote it: spelling, spacing, punctuation, date layout.    *)
(* An empty field is NoText.  Joining the parts with | and hashing them is *)
(* taken as injective; no field holds a |.                                 *)
(***************************************************************************)
EXTENDS Integers

CONSTANTS
    NoText,       \* an empty field, after trimming
    NoReceipt,    \* no fingerprint: receipt_hash IS NULL
    DateLayouts   \* forms of a date that one of the layouts parses

(* InvoiceResult, its identifying fields; total in cents.                  *)
Extract(confident, rfc, name, folio, date, total) ==
    [confident |-> confident, rfc |-> rfc, name |-> name, folio |-> folio,
     date |-> date, total |-> total]

(* normalizeText, normalizeRFC: the form is lost. *)
NormalizeText(field) == IF field = NoText THEN NoText ELSE field.value

(* normalizeDate: ISO when it is written in one of the layouts.            *)
NormalizeDate(date) ==
    IF date # NoText /\ date.form \in DateLayouts
    THEN [date EXCEPT !.form = "iso"] ELSE date

Identified(x) == x.confident /\ x.folio # NoText

(* The RFC, or the name of a business whose RFC was not read. *)
BusinessOf(x) == NormalizeText(IF x.rfc # NoText THEN x.rfc ELSE x.name)

(* Faulty variant: the date as it was read. *)
RawFingerprint(x) ==
    IF ~Identified(x) THEN NoReceipt
    ELSE <<BusinessOf(x), NormalizeText(x.folio), x.date, x.total>>

ComputeFingerprint(x) ==
    IF ~Identified(x) THEN NoReceipt
    ELSE <<BusinessOf(x), NormalizeText(x.folio), NormalizeDate(x.date), x.total>>

=============================================================================
