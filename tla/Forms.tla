------------------------------- MODULE Forms -------------------------------
(***************************************************************************)
(* capy_form_submit of forms/forms.c: fields encoded for a query or a body *)
(* and the request that carries them.                                      *)
(***************************************************************************)
EXTENDS UrlCore

CONSTANT BodyMax  \* CAPY_FORM_BODY_MAX (4096)

ASSUME FormConstants == BodyMax \in Nat

\* A NULL pointer in place of a text.
Null == <<"null">>
Method == {"GET", "POST", "OTHER"}

\* The bytes of the fields of the model: those whose encoding is a unit.
FieldByte == Alpha \cup Digit \cup {" ", ".", "&", "=", "+", "~", "/", NonAscii}

\* Mutant of Encode: a plus sign is taken for a literal.
EncodePlusAsIs(c) ==
  CASE c = " " -> "+"
    [] c = "&" -> "%26"
    [] c = "=" -> "%3D"
    [] c = "~" -> "%7E"
    [] c = "/" -> "%2F"
    [] c = NonAscii -> "%C3"
    [] OTHER -> c

\* form_encode, of a byte
Encode(c) ==
  CASE c = " " -> "+"
    [] c = "&" -> "%26"
    [] c = "=" -> "%3D"
    [] c = "+" -> "%2B"
    [] c = "~" -> "%7E"
    [] c = "/" -> "%2F"
    [] c = NonAscii -> "%C3"
    [] OTHER -> c

Encoded(w) == [i \in DOMAIN w |-> Encode(w[i])]

\* The fields one after the other, parted by ampersands.
EncodedField(f) == Encoded(f.name) \o <<"=">> \o Encoded(f.value)
EncodedFields(fs) ==
  FoldLeft(LAMBDA w, f : (IF w = << >> THEN << >> ELSE Append(w, "&")) \o EncodedField(f), << >>, fs)

IsNull(f) == f.name = Null \/ f.value = Null

\* The fields before the first that is not one; the loop stops at it, or
\* before, where the buffer ends.
Whole(fs) ==
  LET i == SelectInSeq(fs, IsNull)
  IN IF i = 0 THEN fs ELSE SubSeq(fs, 1, i - 1)

FieldsError(fs) ==
  FirstError(<< <<Size(EncodedFields(Whole(fs))) > BodyMax, "OVERFLOW">>, <<Whole(fs) # fs, "NULL">> >>)

\* A refusal leaves what form_request_reset made of the request.
Refuse(method, code) ==
  [status |-> code, method |-> method, url |-> << >>, body |-> << >>, content_type |-> ""]

\* The query of a GET is replaced, and its fragment kept.
Target(method, url, text) ==
  IF method = "GET" THEN [url EXCEPT !.query = text, !.has_query = TRUE] ELSE url

\* The request for an action that has been resolved.
Submitted(method, parsed, text) ==
  LET url == Serialize(Target(method, parsed.url, text), MaxLen)
      posted == IF method = "POST" THEN text ELSE << >>
      type == IF method = "POST" THEN "application/x-www-form-urlencoded" ELSE ""
  IN IF parsed.status # "OK" THEN Refuse(method, "URL")
     ELSE IF parsed.url.scheme # <<"s">> THEN Refuse(method, "SCHEME")
     ELSE IF method = "GET" /\ Size(text) > QueryMax THEN Refuse(method, "OVERFLOW")
     ELSE IF url = Overflow THEN Refuse(method, "OVERFLOW")
     ELSE [status |-> "OK", method |-> method, url |-> url, body |-> posted, content_type |-> type]

\* capy_form_submit: *out is reset before anything can fail.
Submit(method, action, base, fs) ==
  IF action = Null THEN Refuse(method, "NULL")
  ELSE IF method = "OTHER" THEN Refuse(method, "METHOD")
  ELSE IF FieldsError(fs) # "OK" THEN Refuse(method, FieldsError(fs))
  ELSE Submitted(method, Parse(action, base), EncodedFields(fs))

==============================================================================
