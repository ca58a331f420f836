--------------------------------- MODULE LbxWire ---------------------------------
(***************************************************************************)
(* What one answer of the billing system LBX means to the portal:          *)
(* integrations/lbx/_transport.py (decode_response).                       *)
(*                                                                         *)
(* LBX reports failures by the HTTP status, by a code in the body, by an   *)
(* error field and by texts; the four may contradict each other.           *)
(***************************************************************************)
EXTENDS Integers, Sequences, FiniteSets

Transient == {429, 500, 502, 503, 504}

\* Statuses and codes that the branches of the decoder tell apart.
Statuses == {200, 201, 401, 403, 404, 429, 501, 503}
Codes    == {0, 200, 201, 401, 403, 404, 429, 503}      \* 0: no code

\* decoded: finite JSON of the declared size; field: the error field;
\* text: a text of the body the decoder knows; body: it fits the schema but for
\* the code and the error field.
Response ==
    [status : Statuses, decoded : BOOLEAN, code : Codes \cup {-1},
     field : {"absent", "malformed", "text"}, text : {"other", "denied", "unique"},
     body : BOOLEAN]

\* A DTO of the source forbids fields it does not know, one of the private
\* boundary ignores them; a created object may answer 201.
Models == {"read", "private", "created"}

Success(model) == IF model = "created" THEN {200, 201} ELSE {200}

-----------------------------------------------------------------------------
(* _error_facts *)

Present(r) == r.decoded /\ r.field # "absent"

Code(r) == IF r.decoded /\ r.code > 0 THEN r.code ELSE 0

Reason(r) ==
    CASE ~r.decoded \/ r.code = -1 \/ r.field = "malformed" -> "schema_invalid"
      [] OTHER -> CASE r.text = "unique" -> "email_not_unique"
                    [] r.text = "denied" -> "credentials_denied"
                    [] OTHER -> IF Present(r) THEN "provider_rejected" ELSE "unknown"

Says(r, numbers) == r.status \in numbers \/ Code(r) \in numbers

Fits(r, model) ==
    /\ r.decoded /\ r.body
    /\ r.code \in Success(model)
    /\ model = "read" => r.field = "absent"

Again(r) == IF Says(r, Transient) THEN "retry" ELSE "failed"

\* decode_response: the tests are made in this order.
Decode(r, model) ==
    LET reason == Reason(r) IN
    CASE Says(r, {401}) \/ reason = "credentials_denied" -> "denied"
      [] Says(r, {403}) -> "failed"
      [] Says(r, {429}) -> "retry"
      [] Present(r) /\ reason = "schema_invalid" -> Again(r)
      [] reason = "email_not_unique" -> "failed"
      [] reason = "provider_rejected" \/ Code(r) >= 400 -> Again(r)
      [] r.status \in 500..599 -> IF r.status \in Transient THEN "retry" ELSE "failed"
      [] r.status \notin Success(model) \/ reason = "schema_invalid" -> "failed"
      [] ~Fits(r, model) -> "failed"
      [] OTHER -> "ok"

Meanings == [model \in Models |-> {Decode(r, model) : r \in Response}]
==================================================================================
