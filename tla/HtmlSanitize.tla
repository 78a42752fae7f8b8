---------------------------- MODULE HtmlSanitize ----------------------------
(***************************************************************************)
(* The HTML transformations of html-sanitize-core: the display sanitizer   *)
(* and the reader transform.  Both are handlers of one streaming rewriter, *)
(* lol_html, which the crate uses and this module models from that use: it *)
(* keeps the open elements on a stack, knows no omitted end tags, runs the *)
(* handlers inside removed content too, and puts out what it has read up   *)
(* to the last whole tag or character.                                     *)
(*                                                                         *)
(* A document is a sequence of tags and characters, its bytes a sequence   *)
(* of units: a tag has two (all up to its ">", and that), a character of   *)
(* several bytes has two, any other one.  Tags inside <script> and <style>,*)
(* comments, entities and the schemes of URLs are left out.                *)
(***************************************************************************)
EXTENDS Naturals, Sequences, SequencesExt

Char(c) == [kind |-> "char", c |-> c]
StartTag(name, attrs) == [kind |-> "start", name |-> name, attrs |-> attrs]
EndTag(name) == [kind |-> "end", name |-> name]
NoAttrs == [a \in {} |-> ""]

Padding == "zero-width"             \* one of the code's five zero-width characters
Wide == {"e-acute", Padding}        \* characters of more than one byte
Void == {"img", "link", "meta", "base", "embed", "br", "hr", "col"}

(* The bytes of a document. *)
Units(doc) ==
  LET bytes(t) == IF t.kind # "char" THEN <<[kind |-> "tag", tag |-> t], [kind |-> "gt"]>>
                  ELSE IF t.c \in Wide THEN <<[kind |-> "lead", c |-> t.c], [kind |-> "cont", c |-> t.c]>>
                  ELSE <<t>>
  IN  FlattenSeq([i \in DOMAIN doc |-> bytes(doc[i])])

(* What CStr::to_str accepts: no character is cut at either end. *)
WholeChars(bytes) ==
  bytes # <<>> => bytes[1].kind # "cont" /\ bytes[Len(bytes)].kind # "lead"

-----------------------------------------------------------------------------
(* The element handlers.  A handler answers with the tags that take the    *)
(* place of the start tag, whether the content goes too, and what becomes  *)
(* of the end tag: none (Gone), the one read (AsRead), or a new name.      *)

Dangerous == {"script", "form", "iframe", "object", "embed", "link", "meta", "base"}
ReaderGone == Dangerous \cup {"style", "head", "img"}
TableParts == {"table", "tbody", "thead", "tfoot", "tr", "td", "th", "caption", "colgroup", "col"}
TextGone == {"script", "style", "head"}
READER_KEEP == {"p", "h1", "h2", "h3", "ul", "ol", "li", "blockquote", "pre", "code",
                "br", "hr", "strong", "b", "em", "i", "a", "sub", "sup", "s", "u"}
Trackers == {"utm_source", "fbclid"}        \* stands for utm_* and the list of the code
EventAttrs == {"onclick"}                   \* stands for on*

Gone == "-"
AsRead == "="
Removed == [start |-> <<>>, drops |-> TRUE, end |-> Gone]
Unwrapped == [start |-> <<>>, drops |-> FALSE, end |-> Gone]
Kept(name, attrs) == [start |-> <<StartTag(name, attrs)>>, drops |-> FALSE, end |-> AsRead]
Renamed(h, name) == [h EXCEPT !.end = name]

(* What a sequence keeps when the members of a set go. *)
Without(s, gone) == FlattenSeq([i \in DOMAIN s |-> IF s[i] \in gone THEN <<>> ELSE <<s[i]>>])

Only(attrs, names) == [a \in DOMAIN attrs \cap names |-> attrs[a]]

(* Mutant: only the first tracker goes. *)
clean_linkFirst(href) ==
  LET first == SelectInSeq(href.query, LAMBDA key : key \in Trackers)
  IN  [href EXCEPT !.query = IF first = 0 THEN @ ELSE RemoveAt(@, first)]

(* A link target is a page with the keys of its query; without keys there  *)
(* is no "?".                                                              *)
clean_link(href) == [href EXCEPT !.query = Without(href.query, Trackers)]

LinkAttrs(attrs) ==
  [a \in DOMAIN attrs \cup {"rel", "target"} |->
     CASE a = "rel"    -> "noreferrer noopener"
       [] a = "target" -> "_blank"
       [] a = "href"   -> clean_link(attrs.href)
       [] OTHER        -> attrs[a]]

Hygiene(el) == IF el.name = "a" THEN LinkAttrs(el.attrs) ELSE el.attrs

display(el) ==
  IF el.name \in Dangerous \cup {"img"} THEN Removed
  ELSE Kept(el.name, Only(Hygiene(el), DOMAIN Hygiene(el) \ EventAttrs))

Allowed(name) == IF name = "a" THEN {"href", "rel", "target"} ELSE {}

reader(el) ==
  CASE el.name \in ReaderGone         -> Removed
    [] el.name \in {"td", "th"}       -> Renamed(Kept("p", NoAttrs), "p")
    [] el.name \in TableParts \ {"td", "th"} -> Unwrapped
    [] el.name \in READER_KEEP        -> Kept(el.name, Only(Hygiene(el), Allowed(el.name)))
    [] el.name \in {"html", "body"}   -> Kept(el.name, el.attrs)
    [] OTHER                          -> Unwrapped

text(el) == IF el.name \in TextGone THEN Removed ELSE Kept(el.name, el.attrs)

Handler(policy, el) ==
  CASE policy = "display" -> display(el)
    [] policy = "reader"  -> reader(el)
    [] policy = "text"    -> text(el)

Shows(policy, c) == policy = "display" => c # Padding
IsBlocked(policy, el) ==
  policy = "display" /\ el.name = "img" /\ "src" \in DOMAIN el.attrs /\ el.attrs.src \in {"http", "data"}

-----------------------------------------------------------------------------
(* The rewriter: the tag it is in the middle of, the open elements, what   *)
(* went to the sink, and the flag the image handler sets.                  *)

NoTag == [kind |-> "none"]
HtmlRewriter == [tag |-> NoTag, open |-> <<>>, out |-> <<>>, blocked |-> FALSE]

Silent(open) == \E i \in DOMAIN open : open[i].drops
Emit(rw, tokens) == IF Silent(rw.open) THEN rw.out ELSE rw.out \o tokens

OnText(policy, rw, c) ==
  IF Shows(policy, c) THEN [rw EXCEPT !.out = Emit(rw, <<Char(c)>>)] ELSE rw

OnStart(policy, rw, el) ==
  LET h == Handler(policy, el)
  IN  [rw EXCEPT !.out = Emit(rw, h.start), !.blocked = @ \/ IsBlocked(policy, el),
                 !.open = IF el.name \in Void THEN @
                          ELSE Append(@, [name |-> el.name, drops |-> h.drops, end |-> h.end])]

(* Mutant: forgets that a start tag was renamed or dropped. *)
OnEndAsRead(rw, name) ==
  LET match == SelectLastInSeq(rw.open, LAMBDA e : e.name = name)
      below == [rw EXCEPT !.open = SubSeq(@, 1, match - 1)]
  IN  IF match = 0 THEN [rw EXCEPT !.out = Emit(rw, <<EndTag(name)>>)]
      ELSE [below EXCEPT !.out = IF rw.open[match].drops THEN @ ELSE Emit(below, <<EndTag(name)>>)]

(* An end tag closes the last open element of its name and what is open    *)
(* inside it; the handlers of all of those see this tag.                   *)
OnEnd(rw, name) ==
  LET match == SelectLastInSeq(rw.open, LAMBDA e : e.name = name)
      below == [rw EXCEPT !.open = SubSeq(@, 1, match - 1)]
      ends  == {rw.open[i].end : i \in match .. Len(rw.open)}
      named == CASE match = 0    -> name
                 [] Gone \in ends -> Gone
                 [] "p" \in ends  -> "p"
                 [] OTHER         -> name
  IN  IF match = 0 THEN [rw EXCEPT !.out = Emit(rw, <<EndTag(name)>>)]
      ELSE [below EXCEPT !.out = IF named = Gone THEN @ ELSE Emit(below, <<EndTag(named)>>)]

OnTag(policy, rw, t) == IF t.kind = "start" THEN OnStart(policy, rw, t) ELSE OnEnd(rw, t.name)

(* One byte: a tag acts when its ">" arrives, a character when it is whole.*)
Feed(policy, rw, u) ==
  CASE u.kind = "tag" /\ rw.tag = NoTag            -> [rw EXCEPT !.tag = u.tag]
    [] u.kind = "gt" /\ rw.tag # NoTag             -> OnTag(policy, [rw EXCEPT !.tag = NoTag], rw.tag)
    [] u.kind = "gt" /\ rw.tag = NoTag             -> OnText(policy, rw, ">")
    [] u.kind \in {"char", "cont"} /\ rw.tag = NoTag -> OnText(policy, rw, u.c)
    [] OTHER                                       -> rw

(* The bytes one after the other.  Of the singleton set TLC knows the       *)
(* rewriter before Feed uses it.                                           *)
Fed(policy, rw, u) == CHOOSE next \in {Feed(policy, now, u) : now \in {rw}} : TRUE

Write(policy, rw, bytes) ==
  LET after[n \in 0 .. Len(bytes)] ==
        IF n = 0 THEN rw ELSE Fed(policy, after[n - 1], bytes[n])
  IN  after[Len(bytes)]

-----------------------------------------------------------------------------
(* The one-shot calls. *)

OneShot(policy, doc) == Write(policy, HtmlRewriter, Units(doc))
sanitize_for_display(doc) ==
  LET rw == OneShot("display", doc) IN [html |-> rw.out, blocked |-> rw.blocked]
to_reader_html(doc) == OneShot("reader", doc).out

(* html2text: the characters outside script, style and head. *)
Chars(tokens) == FlattenSeq([i \in DOMAIN tokens |-> IF tokens[i].kind = "char" THEN <<tokens[i]>> ELSE <<>>])
to_plain_text(doc) == Chars(OneShot("text", doc).out)
=============================================================================
