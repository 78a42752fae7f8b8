------------------------- MODULE MCContentPipeline -------------------------
(***************************************************************************)
(* Documents for TLC: an element with a character before, inside or after  *)
(* it, inside another element, some of which the sanitizer leaves nothing  *)
(* of; all of them are ordinary documents.                                 *)
(***************************************************************************)
EXTENDS ContentPipeline

Text == {<<Char("x")>>, <<Char("e-acute")>>, <<Char(Padding)>>}
Images == {<<StartTag("img", [src |-> "http"])>>, <<StartTag("img", [src |-> "cid"])>>}
Wrap(name, attrs, body) == <<StartTag(name, attrs)>> \o body \o <<EndTag(name)>>

Link(query) == [href |-> [page |-> "page", query |-> query], class |-> "c"]
Inner == {Wrap("p", [onclick |-> "f"], b) : b \in Text \cup Images}
    \cup {Wrap("a", Link(q), <<Char("x")>>) : q \in {<<>>, <<"utm_source", "id">>, <<"fbclid", "utm_source">>}}
    \cup {Wrap(n, NoAttrs, <<Char("x")>>) : n \in {"script", "style", "b"}}
    \cup {Wrap("form", NoAttrs, b) : b \in Images \cup {<<Char("x")>>, Wrap("form", NoAttrs, <<Char("x")>>)}}
    \cup {Wrap("table", NoAttrs, Wrap("tr", NoAttrs, Wrap("td", [style |-> "s"], b))) : b \in Text \cup Images}
    \cup Text \cup Images

MCDocs == {Wrap(n, [class |-> "c"], a \o b \o c) : n \in {"html", "div", "head", "td", "blockquote"},
                                     a \in {<<>>, <<Char("y")>>}, b \in Inner, c \in {<<>>, <<Char("z")>>, <<Char("e-acute")>>}}
    \cup {a \o b : a \in Inner, b \in Text \cup Images} \cup {<<>>}

ASSUME MCOrdinary == \A doc \in MCDocs : Ordinary(doc)
=============================================================================
