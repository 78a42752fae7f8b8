--------------------------- MODULE ContentPipeline ---------------------------
(***************************************************************************)
(* The way of one HTML message from its arrival to the reading pane:       *)
(*                                                                         *)
(*   IMAP    the message is stored as it came; opening it streams the body *)
(*           once on a worker, then the controller reads the views;        *)
(*   Proton  proton-core sanitizes the body before it is stored; opening   *)
(*           it reads the views.                                           *)
(*                                                                         *)
(* readBodyViews and readBodyStreamed are EmailStore's; both call          *)
(* ContentPipeline::parse, the latter also runs a SanitizerStream over the *)
(* C ABI.  A message has one text/html part and a blank text/plain part.   *)
(***************************************************************************)
EXTENDS HtmlSanitize, FiniteSets

CONSTANTS
  Docs,          \* the HTML documents that arrive
  ChunkCounts,   \* values of parseStreamed's chunkCount
  Sources        \* subset of {"imap", "proton"}

ASSUME PipelineAssumption ==
  /\ ChunkCounts \subseteq Nat \ {0}
  /\ Sources \subseteq {"imap", "proton"}

(* A document consists of tags, which have names, start tags attributes    *)
(* too, and of characters; the target of a link is a page and the keys of  *)
(* its query.                                                              *)
Token(t) ==
  /\ t.kind \in {"start", "end", "char"}
  /\ t.kind # "char" => t.name # Gone
  /\ t.kind = "start" => t.attrs = [a \in DOMAIN t.attrs |-> t.attrs[a]]
  /\ t.kind = "start" /\ "href" \in DOMAIN t.attrs =>
       LET href == t.attrs.href
       IN  /\ href = [page |-> href.page, query |-> href.query]
           /\ href.query \in Seq({href.query[k] : k \in DOMAIN href.query})

Document(doc) ==
  /\ doc \in Seq({doc[i] : i \in DOMAIN doc})
  /\ \A i \in DOMAIN doc : Token(doc[i])

ASSUME DocsAssumption == \A doc \in Docs : Document(doc)

VARIABLES
  message,   \* what was sent: source and HTML document
  step,      \* bytes per chunk of the streamed read
  stored,    \* the HTML part of the .eml in the store, NoHtml before
  stream,    \* the SanitizerStream: whether it exists, its rewriter and out_read
  pos,       \* the byte at which the next chunk starts
  flushed,   \* htmlChunks, one after the other
  views      \* what readBodyViews last returned, NoViews before

vars == <<message, step, stored, stream, pos, flushed, views>>

NoHtml == <<[kind |-> "nothing stored"]>>
NoViews == [found |-> FALSE]

Body == Units(message.doc)

(* The chunk of size n that starts at byte i. *)
Chunk(bytes, i, n) == SubSeq(bytes, i, IF i + n - 1 > Len(bytes) THEN Len(bytes) ELSE i + n - 1)
StepFor(bytes, count) == IF Len(bytes) \div count = 0 THEN 1 ELSE Len(bytes) \div count

Init ==
  /\ message \in [source : Sources, doc : Docs]
  /\ \E n \in ChunkCounts : step = StepFor(Body, n)
  /\ stored = NoHtml
  /\ stream = [at |-> "none"] /\ pos = 1 /\ flushed = <<>>
  /\ views = NoViews

-----------------------------------------------------------------------------
(* IMAP: writeFolderSync stores what the server sent. *)
storeMessage ==
  /\ message.source = "imap" /\ stored = NoHtml
  /\ stored' = message.doc
  /\ UNCHANGED <<message, step, stream, pos, flushed, views>>

(* What assembleCompleteEml makes the body: what message_body got from the *)
(* sanitizer, or the text of the document that came if that left no HTML.  *)
(* Without attachments it stays under the header text/html.                *)
Assembled(doc) ==
  LET html == sanitize_for_display(doc).html
  IN  IF html = <<>> THEN to_plain_text(doc) ELSE html

(* Proton: persistMessage stores that, and nothing of a message without    *)
(* text.                                                                   *)
persistMessage ==
  /\ message.source = "proton" /\ stored = NoHtml
  /\ stored' = IF to_plain_text(message.doc) = <<>> THEN stored ELSE Assembled(message.doc)
  /\ UNCHANGED <<message, step, stream, pos, flushed, views>>

-----------------------------------------------------------------------------
(* parse, as far as the HTML part goes. *)
parse(html) ==
  LET s == sanitize_for_display(html)
      r == to_reader_html(html)
  IN  [found |-> TRUE, safe |-> s.html, blocked |-> s.blocked, reader |-> r, plain |-> to_plain_text(r)]

(* messageBodyStored reached the controller, after the streamed read that  *)
(* IMAP does first.                                                        *)
readBodyViews ==
  /\ stored # NoHtml
  /\ message.source = "imap" => stream.at = "freed"
  /\ views' = parse(stored)
  /\ UNCHANGED <<message, step, stored, stream, pos, flushed>>

(* Mutant: counts one byte too many. *)
OpenPastSink(rw) == [at |-> "open", rw |-> rw, out_read |-> Len(rw.out) + 1]
Open(rw) == [at |-> "open", rw |-> rw, out_read |-> Len(rw.out)]

(* parseStreamed asks the parse first and ends if there is no HTML. *)
sanitize_stream_new ==
  /\ message.source = "imap" /\ stored # NoHtml /\ stream.at = "none"
  /\ stream' = IF stored = <<>> THEN [at |-> "freed"] ELSE Open(HtmlRewriter)
  /\ UNCHANGED <<message, step, stored, pos, flushed, views>>

Running == stream.at = "open"

(* Mutant: hands out the whole sink each time. *)
FreshFromStart(rw) == rw.out
Fresh(rw) == SubSeq(rw.out, stream.out_read + 1, Len(rw.out))

(* One turn of the loop.  The answer of a refused chunk has no "chunk",    *)
(* and the loop goes on.                                                   *)
sanitize_stream_write ==
  LET part == Chunk(Body, pos, step)
      rw   == Write("display", stream.rw, part)
  IN  /\ Running /\ pos <= Len(Body)
      /\ pos' = pos + step
      /\ IF WholeChars(part)
         THEN /\ stream' = Open(rw)
              /\ flushed' = flushed \o Fresh(rw)
         ELSE UNCHANGED <<stream, flushed>>
      /\ UNCHANGED <<message, step, stored, views>>

(* Of a tag whose end was in a refused chunk the rewriter puts out what it *)
(* read, "<" for short, at the end.  Whole documents leave nothing behind. *)
Leftover(rw) == IF rw.tag = NoTag \/ Silent(rw.open) THEN <<>> ELSE <<Char("<")>>
finish(rw) == Fresh(rw) \o Leftover(rw)

sanitize_stream_finish ==
  /\ Running /\ pos > Len(Body)
  /\ flushed' = flushed \o finish(stream.rw)
  /\ stream' = [at |-> "freed"]
  /\ UNCHANGED <<message, step, stored, pos, views>>

Next ==
  \/ storeMessage
  \/ persistMessage
  \/ sanitize_stream_new
  \/ sanitize_stream_write
  \/ sanitize_stream_finish
  \/ readBodyViews

Spec == Init /\ [][Next]_vars

-----------------------------------------------------------------------------
(* Reference definitions: not by a stack, but by what encloses what.       *)

Count(doc, i, j, kind, name) == Cardinality({k \in i .. j : doc[k].kind = kind /\ doc[k].name = name})

Closes(doc, j, k) ==
  /\ doc[k].kind = "end" /\ doc[k].name = doc[j].name
  /\ Count(doc, j + 1, k - 1, "start", doc[j].name) = Count(doc, j + 1, k - 1, "end", doc[j].name)

Encloses(doc, j, i) ==
  /\ doc[j].kind = "start" /\ doc[j].name \notin Void
  /\ \E k \in i + 1 .. Len(doc) : Closes(doc, j, k)
  /\ ~\E k \in j + 1 .. i - 1 : Closes(doc, j, k)

Visible(doc, gone) ==
  FlattenSeq([i \in DOMAIN doc |->
    IF /\ doc[i].kind = "char" /\ doc[i].c # Padding
       /\ ~\E j \in 1 .. i - 1 : Encloses(doc, j, i) /\ doc[j].name \in gone
    THEN <<doc[i].c>> ELSE <<>>])

NoPadding(tokens) == Without(tokens, {Char(Padding)})
TextOf(tokens) ==
  FlattenSeq([i \in DOMAIN tokens |->
    IF tokens[i].kind = "char" /\ tokens[i].c # Padding THEN <<tokens[i].c>> ELSE <<>>])

(* The positions of the start tags that are open after each token; an end  *)
(* tag closes the last one.                                                *)
Nested(open, doc, n) ==
  CASE doc[n].kind = "start" /\ doc[n].name \notin Void -> Append(open, n)
    [] doc[n].kind = "end" /\ open # <<>>               -> SubSeq(open, 1, Len(open) - 1)
    [] OTHER                                            -> open

OpenAfter(doc) ==
  LET at[n \in 0 .. Len(doc)] ==
        IF n = 0 THEN <<>> ELSE CHOOSE next \in {Nested(open, doc, n) : open \in {at[n - 1]}} : TRUE
  IN  at

(* Every end tag has the name of the element it closes, all get closed.    *)
Balanced(doc) ==
  LET at == OpenAfter(doc)
  IN  /\ at[Len(doc)] = <<>>
      /\ \A n \in DOMAIN doc : doc[n].kind = "end" =>
           /\ at[n - 1] # <<>>
           /\ doc[n].name = doc[at[n - 1][Len(at[n - 1])]].name

(* What SourcesAgree and ViewsKeepText ask of a document: that it nests,   *)
(* and that its frame has no event handlers, which the reader would keep   *)
(* and the display sanitizer takes away.                                   *)
Ordinary(doc) ==
  /\ Balanced(doc)
  /\ \A i \in DOMAIN doc : doc[i].kind = "start" /\ doc[i].name \in {"html", "body"} =>
       DOMAIN doc[i].attrs \cap EventAttrs = {}

-----------------------------------------------------------------------------
(* Every variable has its type; the stream never reads ahead of its sink.  *)
TypeOK ==
  /\ message \in [source : Sources, doc : Docs]
  /\ step \in Nat \ {0} /\ pos \in Nat \ {0}
  /\ stored = NoHtml \/ \A i \in DOMAIN stored : stored[i].kind \in {"start", "end", "char"}
  /\ Running => /\ stream.out_read \in 0 .. Len(stream.rw.out)
                /\ stream.rw.tag # NoTag => stream.rw.tag.kind \in {"start", "end"}
  /\ views = NoViews \/ views.found

(* The chunks of size n, of which there are at most as many as bytes; the  *)
(* first k of them without those that sanitize_stream_write refuses.       *)
NthChunk(bytes, n, k) == Chunk(bytes, (k - 1) * n + 1, n)
Taken(bytes, n, k) ==
  FlattenSeq([j \in 1 .. k |-> IF WholeChars(NthChunk(bytes, n, j)) THEN NthChunk(bytes, n, j) ELSE <<>>])

(* What the sanitizer makes of bytes, and of those the stream takes.  (Of   *)
(* the singleton sets TLC knows the members.)                              *)
Sanitized(bytes) ==
  CHOOSE html \in {rw.out \o Leftover(rw) : rw \in {Write("display", HtmlRewriter, b) : b \in {bytes}}} : TRUE
Streamed ==
  CHOOSE html \in {Sanitized(Taken(bytes, step, Len(bytes))) : bytes \in {Body}} : TRUE

NothingRefused == \A k \in 1 .. Len(Body) : WholeChars(NthChunk(Body, step, k))

(* However the body is cut into chunks, the pieces continue one another    *)
(* and end up as what the sanitizer makes of the chunks it took, one after *)
(* the other: nothing of those is lost, repeated or swapped at the         *)
(* boundaries, which fall inside tags too.  If it took all of them, that   *)
(* is the one-shot result (lib.rs, streaming_matches_one_shot); but a cut  *)
(* inside a character costs the chunks on both sides, without a notice.    *)
Expected == IF NothingRefused THEN sanitize_for_display(message.doc).html ELSE Streamed
Promised == INSTANCE ProgressiveBody WITH
  whole <- Expected, given <- flushed, ended <- stream.at = "freed"
StreamIsProgressive == Promised!Spec

(* Of such a Proton message only the text is stored. *)
FallsBack == message.source = "proton" /\ sanitize_for_display(message.doc).html = <<>>

(* The views hold exactly the text that no removed element encloses, in    *)
(* its order: neither pass loses text next to what it removes or unwraps,  *)
(* nor keeps any of what it removes.  Where the text takes the place of an *)
(* empty document, all views hold what html2text shows, which includes the *)
(* text of the elements that the sanitizer removed.                        *)
TextIsKept ==
  views.found =>
    /\ TextOf(views.safe) = Visible(message.doc, IF FallsBack THEN TextGone ELSE Dangerous)
    /\ TextOf(views.reader) = Visible(message.doc, IF FallsBack THEN TextGone ELSE ReaderGone)
    /\ TextOf(views.plain) = TextOf(views.reader)

(* A message looks the same whether it was sanitized once (IMAP) or before *)
(* it was stored and again when it was read (Proton), if the sanitizer     *)
(* leaves any of it: a second pass finds nothing to change, and the reader *)
(* finds in the sanitized document what it finds in the original, padding  *)
(* apart.                                                                  *)
SourcesAgree ==
  views.found /\ ~FallsBack =>
    /\ views.safe = sanitize_for_display(message.doc).html
    /\ NoPadding(views.reader) = NoPadding(to_reader_html(message.doc))

(* The reader document is prose: of the tags only READER_KEEP and the      *)
(* frame, the former without attributes but those of links, and each end   *)
(* tag closes the tag opened last, although start and end are renamed or   *)
(* dropped one by one.                                                     *)
ReaderIsProse ==
  views.found =>
    /\ Balanced(views.reader)
    /\ \A i \in DOMAIN views.reader :
         LET t == views.reader[i]
         IN  /\ t.kind # "char" => t.name \in READER_KEEP \cup {"html", "body"}
             /\ t.kind = "start" /\ t.name \in READER_KEEP => DOMAIN t.attrs \subseteq Allowed(t.name)

(* Both: what the views show is the text of the message, as prose.         *)
ViewsKeepText == TextIsKept /\ ReaderIsProse
=============================================================================
