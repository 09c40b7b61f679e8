-------------------------------- MODULE Request --------------------------------
(***************************************************************************)
(* Request::parse on one connection: the header is read until its end is   *)
(* there, then the body is read into the same buffer, or, for an upload,   *)
(* streamed to the processor of Upload.tla.                                *)
(*                                                                         *)
(* The client sends the units of Wire; a read returns some of them.  A     *)
(* unit of a header is its first line, a line break or the text of a       *)
(* field; a unit of a form is a character.                                 *)
(***************************************************************************)
EXTENDS Upload

CONSTANTS
  Requests,   \* what clients may send
  MaxHeader,  \* MAX_HEADER_SIZE
  MaxBody,    \* MAX_NORMAL_BODY_SIZE
  MaxRead     \* the size of the array of web_read

Character == {"a", " ", "+", "%", "2", "3", "5", "6", "B", "D", "&", "="}
Field == [key : Seq(Character), value : Seq(Character)]

RequestRecord ==
  [method : {"GET", "POST", "garbage"},         \* garbage: a line without spaces
   query  : Seq(Field),                         \* what the path is followed by
   names  : {"canonical", "lower", "upper"},    \* how names of fields are written
   length : {"none", "exact", "short"},         \* the field Content-Length
   type   : {"none", "text", "form", "multipart", "multipart, no boundary"},
   pad    : Nat,                                \* units of other fields
   form   : Seq(Field),                         \* the body, if not multipart
   parts  : Seq(Part)]                          \* the body, if multipart

ASSUME RequestAssumption == Requests \subseteq RequestRecord
ASSUME LimitAssumption ==
  MaxHeader \in Nat /\ MaxBody \in Nat /\ MaxRead \in Nat \ {0}

VARIABLES
  req,           \* what the client sends
  stage,         \* where parse is; "failed": web_read returned 0 or -1
  got,           \* how many units of it raw_data_ holds
  header_size,   \* header_size
  query_params,  \* query_params_
  post_form,     \* post_form_
  moved          \* raw_data_ was reallocated: method and path dangle

parser == <<req, stage, got, header_size, query_params, post_form, moved>>
rqvars == <<parser, upvars>>

-----------------------------------------------------------------------------
(***************************************************************************)
(* External: what a browser sends.                                         *)
(***************************************************************************)

Escape == [c \in {"+", "&", "=", "%", " "} |->
             CASE c = "+" -> <<"%", "2", "B">> [] c = "&" -> <<"%", "2", "6">>
               [] c = "=" -> <<"%", "3", "D">> [] c = "%" -> <<"%", "2", "5">>
               [] OTHER -> <<"+">>]

\* How a browser encodes a text, and the fields of a form.
Encode(text) ==
  FoldLeft(LAMBDA s, c : s \o (IF c \in DOMAIN Escape THEN Escape[c] ELSE <<c>>),
           <<>>, text)
EncodeForm(fields) ==
  FoldLeft(LAMBDA s, f : s \o (IF s = <<>> THEN <<>> ELSE <<"&">>)
                           \o Encode(f.key) \o <<"=">> \o Encode(f.value),
           <<>>, fields)

Multipart == req.type \in {"multipart", "multipart, no boundary"}
Payload == IF Multipart THEN Body ELSE EncodeForm(req.form)

\* The value of Content-Length.
Announced == IF req.length = "exact" THEN Len(Payload)
             ELSE IF Payload = <<>> THEN 0 ELSE Len(Payload) - 1

Header ==
  <<"line", "crlf">>
  \o (IF req.length = "none" THEN <<>> ELSE <<"length", "crlf">>)
  \o (IF req.type = "none" THEN <<>> ELSE <<"type", "crlf">>)
  \o (IF req.pad = 0 THEN <<>> ELSE [i \in 1..req.pad |-> "field"] \o <<"crlf">>)
  \o <<"crlf">>

Wire == Header \o Payload
raw_data == SubSeq(Wire, 1, got)

-----------------------------------------------------------------------------
(***************************************************************************)
(* Decoding.  A map from keys to values is a function; a key that comes    *)
(* again replaces the value.                                               *)
(***************************************************************************)
NoFields == <<>>
Put(form, key, value) ==
  [k \in DOMAIN form \cup {key} |-> IF k = key THEN value ELSE form[k]]

Hex == [h \in {<<"2", "5">>, <<"2", "6">>, <<"2", "B">>, <<"3", "D">>} |->
          CASE h = <<"2", "5">> -> "%" [] h = <<"2", "6">> -> "&"
            [] h = <<"2", "B">> -> "+" [] OTHER -> "="]

\* Faulty: an escape at the end of the text is left as it is.
url_decode_short(text) ==
  FoldLeft(LAMBDA d, i :
             IF i < d.next THEN d
             ELSE IF text[i] = "%" /\ i + 2 < Len(text)
             THEN [res |-> Append(d.res, Hex[SubSeq(text, i + 1, i + 2)]), next |-> i + 3]
             ELSE [res |-> Append(d.res, IF text[i] = "+" THEN " " ELSE text[i]),
                   next |-> i + 1],
           [res |-> <<>>, next |-> 1], [i \in DOMAIN text |-> i]).res

url_decode(text) ==
  FoldLeft(LAMBDA d, i :
             IF i < d.next THEN d
             ELSE IF text[i] = "%" /\ i + 2 <= Len(text)
             THEN [res |-> Append(d.res, Hex[SubSeq(text, i + 1, i + 2)]), next |-> i + 3]
             ELSE [res |-> Append(d.res, IF text[i] = "+" THEN " " ELSE text[i]),
                   next |-> i + 1],
           [res |-> <<>>, next |-> 1], [i \in DOMAIN text |-> i]).res

\* The loop that both parsers share: pairs end at "&", the key of a pair at the
\* first "=".
Pairs(text) ==
  FoldLeft(LAMBDA ps, c : IF c = "&" THEN Append(ps, <<>>)
                          ELSE [ps EXCEPT ![Len(ps)] = Append(@, c)],
           <<<<>>>>, text)
Separator(pair) == CHOOSE i \in DOMAIN pair :
                     pair[i] = "=" /\ \A j \in 1..i - 1 : pair[j] # "="
KeyOf(pair) == SubSeq(pair, 1, Separator(pair) - 1)
ValueOf(pair) == SubSeq(pair, Separator(pair) + 1, Len(pair))

\* Faulty: the text is decoded before it is split.
parse_form_urlencoded_early(text) ==
  FoldLeft(LAMBDA form, p :
             IF Contains(p, "=") THEN Put(form, KeyOf(p), ValueOf(p)) ELSE form,
           NoFields, Pairs(url_decode(text)))

\* A pair without "=" is skipped.
parse_form_urlencoded(text) ==
  FoldLeft(LAMBDA form, p :
             IF Contains(p, "=")
             THEN Put(form, url_decode(KeyOf(p)), url_decode(ValueOf(p))) ELSE form,
           NoFields, Pairs(text))

\* Parameters of the path are not decoded.
parse_query_string(text) ==
  FoldLeft(LAMBDA form, p :
             IF Contains(p, "=") THEN Put(form, KeyOf(p), ValueOf(p)) ELSE form,
           NoFields, Pairs(text))

-----------------------------------------------------------------------------
\* get_header("Content-Type"): names are compared exactly.
ContentType == IF req.names = "canonical" THEN req.type ELSE "none"

\* It overrides what do_parse_header has found, whatever the case of the name,
\* with what it finds under two spellings.
peek_content_length ==
  IF req.length = "none" \/ req.names = "upper" THEN 0 ELSE Announced

RequestInit ==
  /\ req \in Requests
  /\ parts = req.parts
  /\ UploadInit
  /\ stage = "header"
  /\ got = 0
  /\ header_size = 0
  /\ query_params = NoFields
  /\ post_form = NoFields
  /\ moved = FALSE

HeaderFound == stage = "header" /\ Found(raw_data, HeaderEnd)
HeaderMissing == stage = "header" /\ ~Found(raw_data, HeaderEnd)

\* Faulty: no limit.
HeaderRead_unbounded ==
  /\ HeaderMissing
  /\ \E n \in 1..MaxRead : got + n <= Len(Wire) /\ got' = got + n
  /\ UNCHANGED <<req, stage, header_size, query_params, post_form, moved, upvars>>

\* A read, while the end of the header is missing.
HeaderRead ==
  /\ HeaderMissing /\ got <= MaxHeader
  /\ \E n \in 1..MaxRead : got + n <= Len(Wire) /\ got' = got + n
  /\ UNCHANGED <<req, stage, header_size, query_params, post_form, moved, upvars>>

HeaderTooLong ==
  /\ HeaderMissing /\ got > MaxHeader
  /\ stage' = "rejected"
  /\ UNCHANGED <<req, got, header_size, query_params, post_form, moved, upvars>>

\* do_parse_header fails.
LineRejected ==
  /\ HeaderFound /\ req.method = "garbage"
  /\ stage' = "rejected"
  /\ header_size' = Find(raw_data, HeaderEnd) + Len(HeaderEnd)
  /\ UNCHANGED <<req, got, query_params, post_form, moved, upvars>>

\* do_parse_header, and peek_content_length.
ParsesHeader ==
  /\ HeaderFound /\ req.method # "garbage"
  /\ header_size' = Find(raw_data, HeaderEnd) + Len(HeaderEnd)
  /\ content_length' = peek_content_length
  /\ query_params' = parse_query_string(EncodeForm(req.query))
  /\ UNCHANGED <<req, got, post_form>>

BoundaryMissing ==
  /\ ParsesHeader
  /\ ContentType = "multipart, no boundary"
  /\ stage' = "rejected"
  /\ UNCHANGED <<moved, parts, received, phase, processor, pool, disk, hist>>

StreamsBody ==
  /\ ParsesHeader
  /\ ContentType = "multipart"
  /\ stage' = "stream"
  /\ Starts(got - header_size')
  /\ UNCHANGED moved

\* Any other request.
IsNormal == ContentType \notin {"multipart", "multipart, no boundary"}

WithoutBody ==
  /\ ParsesHeader
  /\ IsNormal /\ content_length' = 0
  /\ stage' = "accepted"
  /\ UNCHANGED <<moved, parts, received, phase, processor, pool, disk, hist>>

\* Faulty: the limit itself is too long.
BodyTooLong_strict ==
  /\ ParsesHeader
  /\ IsNormal /\ content_length' >= MaxBody
  /\ stage' = "rejected"
  /\ UNCHANGED <<moved, parts, received, phase, processor, pool, disk, hist>>

BodyTooLong ==
  /\ ParsesHeader
  /\ IsNormal /\ content_length' > MaxBody
  /\ stage' = "rejected"
  /\ UNCHANGED <<moved, parts, received, phase, processor, pool, disk, hist>>

\* reserve() moves the buffer if it is too small for the body.
ReservesBody ==
  /\ ParsesHeader
  /\ IsNormal /\ content_length' \in 1..MaxBody
  /\ stage' = "body"
  /\ moved' \in IF got < header_size' + content_length' THEN BOOLEAN ELSE {FALSE}
  /\ UNCHANGED <<parts, received, phase, processor, pool, disk, hist>>

\* One more than announced may need more room than was reserved.
BodyRead ==
  /\ stage = "body" /\ got < header_size + content_length
  /\ \E n \in 1..MaxRead : got + n <= Len(Wire) /\ got' = got + n
  /\ moved' \in IF got' > header_size + content_length THEN {moved, TRUE} ELSE {moved}
  /\ UNCHANGED <<req, stage, header_size, query_params, post_form, upvars>>

body == SubSeq(raw_data, header_size + 1, header_size + content_length)

\* parse_body, which tests the method: a view into the buffer that may have moved.
ParsesBody ==
  /\ stage = "body" /\ got >= header_size + content_length
  /\ stage' = "accepted"
  /\ \E post \in IF moved THEN BOOLEAN ELSE {req.method = "POST"} :
       post_form' = IF post /\ ContentType = "form" THEN parse_form_urlencoded(body)
                    ELSE NoFields
  /\ UNCHANGED <<req, got, header_size, query_params, moved, upvars>>

\* The peer has closed, or the read has failed.
ReadFails ==
  /\ \/ HeaderMissing /\ got <= MaxHeader
     \/ stage = "body" /\ got < header_size + content_length
  /\ stage' = "failed"
  /\ UNCHANGED <<req, got, header_size, query_params, post_form, moved, upvars>>

\* handle_multipart_streaming.
Streams ==
  /\ Reader
  /\ stage' = IF phase' = "done" THEN "accepted" ELSE stage
  /\ UNCHANGED <<req, got, header_size, query_params, post_form, moved>>

Parse == \/ HeaderRead \/ HeaderTooLong \/ LineRejected \/ BoundaryMissing
         \/ StreamsBody \/ WithoutBody \/ BodyTooLong \/ ReservesBody
         \/ BodyRead \/ ParsesBody \/ ReadFails \/ Streams

Writes == (Worker \/ Notify \/ Shutdown) /\ UNCHANGED parser

RequestNext == Parse \/ Writes

\* The writer's thread runs, and the goroutine that is in addTask.
RequestFairness == WF_rqvars(Worker /\ UNCHANGED parser) /\ WF_rqvars(Notify /\ UNCHANGED parser)

RequestSpec == RequestInit /\ [][RequestNext]_rqvars /\ RequestFairness

-----------------------------------------------------------------------------
(***************************************************************************)
(* Properties.                                                             *)
(***************************************************************************)
RequestTypeOK ==
  /\ UploadTypeOK
  /\ req \in RequestRecord
  /\ stage \in {"header", "body", "stream", "accepted", "rejected", "failed"}
  /\ got \in 0..Len(Wire)
  /\ header_size \in {0, Len(Header)}
  /\ moved \in BOOLEAN
  /\ stage = "stream" <=> phase \in {"read", "feed", "finish"}

\* The fields of a form: of two with one key the last.
Sends(fields) ==
  [k \in {fields[i].key : i \in DOMAIN fields} |->
     fields[CHOOSE i \in DOMAIN fields :
              /\ fields[i].key = k
              /\ \A j \in i + 1..Len(fields) : fields[j].key # k].value]

Understood == req.names = "canonical" /\ req.length = "exact"

\* However the request is cut into reads: a form whose header is understood is
\* received as it was sent, unless the view of the method dangles, and then it
\* is that or nothing; query_params_ has the fields of the query, encoded still.
ParsedAsSent ==
  stage = "accepted" =>
    /\ query_params = Sends([i \in DOMAIN req.query |->
                               [key |-> Encode(req.query[i].key),
                                value |-> Encode(req.query[i].value)]])
    /\ Understood /\ req.type = "form" /\ req.form # <<>> =>
         LET sent == IF req.method = "POST" THEN Sends(req.form) ELSE NoFields
         IN  post_form = sent \/ (moved /\ post_form \in {Sends(req.form), NoFields})

\* The limits: what is rejected is malformed or exceeds one, what is accepted
\* exceeds that of the header by less than a read, and so does raw_data_ until
\* the end of the header is found, and the length of the body afterwards.
LimitsKept ==
  /\ stage = "rejected" =>
       \/ req.method = "garbage"
       \/ req.type = "multipart, no boundary"
       \/ Len(Header) > MaxHeader
       \/ Announced > MaxBody
  /\ stage = "accepted" =>
       /\ req.method # "garbage"
       /\ Len(Header) <= MaxHeader + MaxRead
       /\ Understood /\ ~Multipart => Len(Payload) <= MaxBody
  /\ stage = "header" => got <= MaxHeader + MaxRead
  /\ stage = "body" => got < header_size + content_length + MaxRead

=============================================================================
