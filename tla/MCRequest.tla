------------------------------- MODULE MCRequest -------------------------------
(* Small instances of Request, and with it of Upload, for TLC. *)
EXTENDS Request

UpTo(n, S) == UNION {[1..i -> S] : i \in 0..n}

MCField == [key : {<<"a">>, <<"&">>}, value : {<<>>, <<"=", " ">>, <<"+">>, <<"%">>}]
OneField == <<[key |-> <<"a">>, value |-> <<"&">>]>>

Post == [method |-> "POST", query |-> <<>>, names |-> "canonical",
         length |-> "exact", type |-> "form", pad |-> 0, form |-> OneField,
         parts |-> <<>>]

\* Forms, in the body and in the query.
Forms ==
  {[Post EXCEPT !.form = f] : f \in UpTo(2, MCField)} \cup
  {[Post EXCEPT !.method = "GET", !.query = f, !.length = "none", !.type = "none",
                !.form = <<>>] : f \in UpTo(2, MCField)}

\* One field under every header.
Headers ==
  {[Post EXCEPT !.method = m, !.names = n, !.length = l, !.type = t, !.pad = p] :
     m \in {"GET", "POST", "garbage"}, n \in {"canonical", "lower", "upper"},
     l \in {"none", "exact", "short"}, t \in {"none", "text", "form"},
     p \in {0, 6, 10}}

Short == {p \in Part : Len(p.data) <= 1}

\* Every upload of one part, and of two short ones; and one under every header.
Uploads ==
  {[Post EXCEPT !.type = "multipart", !.form = <<>>, !.parts = ps] :
     ps \in UpTo(1, Part) \cup [1..2 -> Short]} \cup
  {[Post EXCEPT !.names = n, !.length = l, !.type = t, !.pad = p, !.form = <<>>,
                !.parts = <<[file |-> f, data |-> <<x>>]>>] :
     n \in {"canonical", "lower", "upper"}, l \in {"none", "exact", "short"},
     t \in {"multipart", "multipart, no boundary"}, p \in {0, 6, 10},
     f \in File, x \in Data}

MCRequests == Forms \cup Headers \cup Uploads

=============================================================================
