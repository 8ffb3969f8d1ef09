----------------------------- MODULE BodyFilter -----------------------------
(***************************************************************************)
(* The output filters of ngx_mruby for one response.  A header filter      *)
(* script runs when nginx sends the header; a body filter script needs the *)
(* whole body, so the module holds the header back, collects the buffers   *)
(* of every filter call in ctx->body, runs the script once, and only then  *)
(* passes a header with the new length and the new body to the next        *)
(* filters.                                                                *)
(*                                                                         *)
(* The content handler (external) is the environment: it sends the header, *)
(* then the body in chains of buffers cut anywhere.  A byte is named by    *)
(* its position in the body, 0 is the filler of a zeroed allocation, and   *)
(* -1 a byte that a script wrote.                                          *)
(***************************************************************************)
EXTENDS Integers, SequencesExt

CONSTANTS
    Confs,        \* filters configured: subsets of {"header", "body"}
    MaxBytes,     \* bound: bytes of a response body
    MaxBufs,      \* bound: buffers in one chain
    ScriptEnds    \* how scripts end: "return", "raise", "error"

ASSUME FilterAssumption ==
    /\ Confs \subseteq SUBSET {"header", "body"}
    /\ MaxBytes \in Nat /\ MaxBufs \in Nat
    /\ ScriptEnds \subseteq {"return", "raise", "error"}

VARIABLES
    conf,        \* the filters of this location
    upstream,    \* r->upstream is set
    head,        \* the request method is HEAD
    content_length_n, \* headers_out: the length to announce, -1 if unknown
    status,      \* headers_out.status
    declared,    \* the length the content handler declared, -1 for none
    given,       \* body bytes the content handler has passed to the filters
    ended,       \* it has passed its last buffer
    phase,       \* ctx->phase: start, read, process, pass
    body_length, \* ctx->body_length
    body,        \* ctx->body up to ctx->last
    buffered,    \* r->connection->buffered & 0x08
    header,      \* the header the next filters sent, or NoHeader
    out,         \* body bytes passed to the next filters
    out_last,    \* a buffer with last_buf was passed to them
    result,      \* open, or error once a filter call returned NGX_ERROR
    seen,        \* history: bodies the script was run on
    raised       \* history: a body script raised

vars == <<conf, upstream, head, declared, content_length_n, status, given, ended, phase,
          body_length, body, buffered, header, out, out_last, result, seen,
          raised>>

NoHeader == [length |-> -2, status |-> 0]
Filler == 0
Fresh == -1

-----------------------------------------------------------------------------
(* The next filters (external).                                            *)

\* The header is sent by the first call, later calls find header_sent.
HeaderAgain(n, st) == [length |-> n, status |-> st]
NextHeaderFilter(n, st) ==
    IF header = NoHeader THEN [length |-> n, status |-> st] ELSE header

\* A HEAD request becomes header_only when its header is sent, which the
\* module treats as an error.
HeaderFails == head

Buf == [size : 0 .. MaxBytes, last : BOOLEAN]
Chains == UNION {[1 .. n -> Buf] : n \in 1 .. MaxBufs}
Size(in) == FoldLeft(LAMBDA acc, b : acc + b.size, 0, in)
Total == IF declared >= 0 THEN declared ELSE MaxBytes
Bytes(from, n) == [i \in 1 .. n |-> from + i]

\* What a content handler may pass next: no more than it declared, and the
\* last buffer exactly at the end.
MayGive(in) ==
    /\ ~ended
    /\ given + Size(in) <= Total
    /\ \A i \in 1 .. Len(in) : in[i].last =>
         i = Len(in) /\ (declared >= 0 => given + Size(in) = Total)

Gives(in) ==
    /\ given' = given + Size(in)
    /\ ended' = in[Len(in)].last

Forwards(bytes, last) ==
    /\ out' = out \o bytes
    /\ out_last' = (out_last \/ last)

-----------------------------------------------------------------------------
(* ngx_http_mruby_header_filter.                                           *)

StatusAfter(end) == IF end = "raise" THEN 500 ELSE status

\* No filter here: nothing but the next header filter.
HeaderPasses ==
    /\ phase = "none" /\ conf = {}
    /\ header' = NextHeaderFilter(content_length_n, status)
    /\ phase' = "start"
    /\ result' = IF HeaderFails THEN "error" ELSE result
    /\ UNCHANGED <<conf, upstream, head, declared, content_length_n, status,
                   given, ended, body_length, body, buffered, out, out_last,
                   seen, raised>>

\* Only a body filter: the header is held back until the body is known.
HeaderHeldBack ==
    /\ phase = "none" /\ conf = {"body"}
    /\ body_length' = content_length_n
    /\ phase' = "start"
    /\ UNCHANGED <<conf, upstream, head, declared, content_length_n, status,
                   given, ended, body, buffered, header, out, out_last,
                   result, seen, raised>>

\* A header filter: its script runs and the header goes out at once.
HeaderScript(end) ==
    /\ phase = "none" /\ "header" \in conf
    /\ body_length' = content_length_n
    /\ status' = StatusAfter(end)
    /\ header' = IF end = "error" THEN header
                 ELSE NextHeaderFilter(content_length_n, status')
    /\ phase' = "start"
    /\ result' = IF end = "error" \/ HeaderFails THEN "error" ELSE result
    /\ UNCHANGED <<conf, upstream, head, declared, content_length_n, given,
                   ended, body, buffered, out, out_last, seen, raised>>

-----------------------------------------------------------------------------
(* ngx_http_mruby_body_filter and the handler it calls.                    *)

\* No body filter, or a body of unknown length: pass the chain on, after
\* the header that may have been held back.
HeaderForgotten == header
HeaderNow ==
    IF "body" \in conf THEN NextHeaderFilter(content_length_n, status) ELSE header
PassesFirstBuf(in) == Bytes(given, in[1].size)
PassedOn(in) == Bytes(given, Size(in))
BodyPasses(in) ==
    /\ phase = "start" /\ result = "open"
    /\ "body" \notin conf \/ content_length_n < 0
    /\ MayGive(in) /\ Gives(in)
    /\ header' = HeaderNow
    /\ IF "body" \in conf /\ HeaderFails
       THEN result' = "error" /\ UNCHANGED <<out, out_last>>
       ELSE Forwards(PassedOn(in), in[Len(in)].last) /\ UNCHANGED result
    /\ UNCHANGED <<conf, upstream, head, declared, content_length_n, status,
                   phase, body_length, body, buffered, seen, raised>>

\* read_body takes the buffers of a chain one by one, never more than fits,
\* and stops at the last buffer or when a proxied body is complete.
ReadsOneLess(acc, b) ==
    LET rest == body_length - Len(acc.body)
        size == IF rest < b.size THEN rest ELSE b.size
    IN  IF acc.done THEN acc
        ELSE [body |-> acc.body \o Bytes(acc.from, size),
              from |-> acc.from + b.size,
              done |-> b.last \/ (upstream /\ size = rest - 1)]
NeedsDataInLast(acc, b) ==
    LET rest == body_length - Len(acc.body)
        size == IF rest < b.size THEN rest ELSE b.size
    IN  IF acc.done THEN acc
        ELSE [body |-> acc.body \o Bytes(acc.from, size),
              from |-> acc.from + b.size,
              done |-> (b.last /\ size > 0) \/ (upstream /\ size = rest)]
ReadBuf(acc, b) ==
    LET rest == body_length - Len(acc.body)
        size == IF rest < b.size THEN rest ELSE b.size
    IN  IF acc.done THEN acc
        ELSE [body |-> acc.body \o Bytes(acc.from, size),
              from |-> acc.from + b.size,
              done |-> b.last \/ (upstream /\ size = rest)]
ReadBody(in) ==
    FoldLeft(ReadBuf, [body |-> body, from |-> given, done |-> FALSE], in)

\* NGX_AGAIN from read_body: keep what was read for the next call.
BodyIncomplete(in) ==
    /\ phase \in {"start", "read"} /\ result = "open"
    /\ "body" \in conf /\ content_length_n >= 0
    /\ MayGive(in) /\ Gives(in)
    /\ ~ReadBody(in).done
    /\ body' = ReadBody(in).body
    /\ buffered' = TRUE
    /\ phase' = "read"
    /\ UNCHANGED <<conf, upstream, head, declared, content_length_n, status,
                   body_length, header, out, out_last, result, seen, raised>>

\* Filter#body: body_length bytes of a zeroed allocation.
FilterBody(read) ==
    [i \in 1 .. body_length |-> IF i <= Len(read) THEN read[i] ELSE Filler]

\* Filter#body= : a body of another length, or none (Keep).
Keep == -1
NewBody(read, set) ==
    IF set = Keep THEN FilterBody(read) ELSE [i \in 1 .. set |-> Fresh]

\* The body is complete: the script runs, and finalize_body_filter sends the
\* header with the new length, then the body as one last buffer.
StaleLength(new) == content_length_n
LengthWithTerminator(new) == Len(new) + 1
LengthOf(new) == Len(new)
BodyComplete(in, set, end) ==
    LET read == ReadBody(in).body
        new  == NewBody(read, set)
    IN  /\ phase \in {"start", "read"} /\ result = "open"
        /\ "body" \in conf /\ content_length_n >= 0
        /\ MayGive(in) /\ Gives(in)
        /\ ReadBody(in).done
        /\ buffered' = FALSE
        /\ seen' = Append(seen, FilterBody(read))
        /\ status' = StatusAfter(end)
        /\ raised' = (raised \/ end = "raise")
        /\ body' = new /\ body_length' = Len(new)
        /\ IF end = "error"
           THEN /\ phase' = "process"
                /\ result' = "error"
                /\ UNCHANGED <<content_length_n, header, out, out_last>>
           ELSE /\ phase' = "pass"
                /\ content_length_n' = LengthOf(new)
                /\ header' = NextHeaderFilter(content_length_n', status')
                /\ IF HeaderFails
                   THEN result' = "error" /\ UNCHANGED <<out, out_last>>
                   ELSE Forwards(new, TRUE) /\ UNCHANGED result
        /\ UNCHANGED <<conf, upstream, head, declared>>

\* The body is out: what still comes of the old one is passed on.
BodyTail(in) ==
    /\ phase = "pass" /\ result = "open"
    /\ MayGive(in) /\ Gives(in)
    /\ Forwards(PassedOn(in), in[Len(in)].last)
    /\ UNCHANGED <<conf, upstream, head, declared, content_length_n, status,
                   phase, body_length, body, buffered, header, result, seen,
                   raised>>

-----------------------------------------------------------------------------
Init ==
    /\ conf \in Confs
    /\ upstream \in BOOLEAN /\ head \in BOOLEAN
    /\ declared \in -1 .. MaxBytes
    /\ content_length_n = declared
    /\ status = 200
    /\ given = 0 /\ ended = FALSE
    /\ phase = "none"
    /\ body_length = 0 /\ body = <<>>
    /\ buffered = FALSE
    /\ header = NoHeader
    /\ out = <<>> /\ out_last = FALSE
    /\ result = "open"
    /\ seen = <<>> /\ raised = FALSE

BodyFilter(in) ==
    \/ BodyPasses(in)
    \/ BodyIncomplete(in)
    \/ BodyTail(in)
    \/ \E set \in Keep .. MaxBytes, end \in ScriptEnds : BodyComplete(in, set, end)

Next ==
    \/ HeaderPasses
    \/ HeaderHeldBack
    \/ \E end \in ScriptEnds : HeaderScript(end)
    \/ \E in \in Chains : BodyFilter(in)

Spec == Init /\ [][Next]_vars

-----------------------------------------------------------------------------
(* Properties.                                                             *)

TypeOK ==
    /\ conf \in Confs /\ {upstream, head, ended, buffered, out_last, raised} \subseteq BOOLEAN
    /\ {declared, content_length_n} \subseteq -1 .. MaxBytes
    /\ body_length \in -1 .. MaxBytes
    /\ status \in {200, 500}
    /\ given \in 0 .. MaxBytes
    /\ phase \in {"none", "start", "read", "process", "pass"}
    /\ Len(body) <= MaxBytes /\ Len(out) <= MaxBytes
    /\ result \in {"open", "error"}

\* No body byte overtakes the header, whether it was sent at once, held back
\* for the body script, or held back in vain for a body of unknown length.
HeaderBeforeBody == out # <<>> \/ out_last => header # NoHeader

\* The body script runs once, on exactly the bytes of the response, in
\* whatever pieces they came and whether or not the last piece is marked.
ScriptSeesWholeBody ==
    seen \in {<<>>, <<Bytes(0, declared)>>}

\* When the content handler is done, so are the filters: nothing is kept
\* back, the client gets an end of the body.
NothingKeptBack ==
    ended /\ result = "open" => out_last /\ ~buffered

\* Without a body script, or with a length it cannot handle, the response is
\* what the content handler wrote.
UnfilteredUnchanged ==
    seen = <<>> /\ ended /\ result = "open" => out = Bytes(0, given)

\* Where the body script decides alone, the header sent announces the body
\* sent, and the 500 of a script that raised.
SoleFilterLength ==
    conf = {"body"} /\ seen # <<>> /\ result = "open" =>
        header.length = Len(out) /\ (raised => header.status = 500)
=============================================================================
