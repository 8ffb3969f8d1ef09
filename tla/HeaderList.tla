----------------------------- MODULE HeaderList -----------------------------
(***************************************************************************)
(* Headers_in and Headers_out: reading, setting and deleting headers in    *)
(* an ngx_list_t, the list of arrays in which nginx keeps the headers of a *)
(* request or a response.                                                  *)
(*                                                                         *)
(* nginx only ever appends to such a list.  ngx_mruby deletes from it in   *)
(* place, by moving the start of a part, by shortening it or by splitting  *)
(* it in two, and keeps headers->last and headers->nalloc in step by hand. *)
(* The model keeps the pointers: parts have numbers, the first part is the *)
(* one embedded in the list, and elts is an offset into a block of memory. *)
(***************************************************************************)
EXTENDS Integers, SequencesExt

CONSTANTS
    Keys,        \* header names, up to case
    Begins,      \* pairs <<k, l>> such that name l begins with name k
    Values,      \* header values
    NAlloc,      \* elements per part, as the list was created
    MaxParts,    \* bound: parts allocated
    MaxHeaders   \* bound: headers the list holds before the script runs

ASSUME HeaderAssumption ==
    /\ Begins \subseteq Keys \X Keys
    /\ \A k \in Keys : <<k, k>> \in Begins
    /\ NAlloc \in Nat \ {0} /\ MaxParts \in Nat \ {0}
    /\ MaxHeaders \in Nat

Header == [key : Keys, value : Values]
Null == 0
First == 1                \* &headers->part

VARIABLES
    headers,  \* the ngx_list_t: the parts, last, nalloc, and the memory blocks
    op        \* history: the last operation of a script

vars == <<headers, op>>

-----------------------------------------------------------------------------
(* Reading the list.                                                       *)

\* The elements of a part.
Elts(l, p) ==
    [i \in 1 .. l.part[p].nelts |-> l.mem[l.part[p].block][l.part[p].off + i]]

\* The parts in the order of the next pointers.
Chain(l) ==
    LET from[n \in 0 .. Len(l.part)] ==
          IF n = 0 THEN <<First>>
          ELSE LET c == from[n - 1]
               IN  IF l.part[Last(c)].next = Null THEN c
                   ELSE Append(c, l.part[Last(c)].next)
    IN  from[Len(l.part)]

Contents(l) ==
    FoldLeft(LAMBDA hs, p : hs \o Elts(l, p), <<>>, Chain(l))

\* ngx_mrb_get_request_header compares whole names.
Get(l, key) ==
    FoldLeft(LAMBDA hs, h : IF h.key = key THEN Append(hs, h) ELSE hs, <<>>, Contents(l))

-----------------------------------------------------------------------------
(* ngx_list_push (external): a new part when the last one is full.         *)

Grown(l) ==
    IF l.part[l.last].nelts # l.nalloc THEN l
    ELSE [part   |-> [Append(l.part, [block |-> Len(l.mem) + 1, off |-> 0,
                                      nelts |-> 0, next |-> Null])
                        EXCEPT ![l.last].next = Len(l.part) + 1],
          last   |-> Len(l.part) + 1,
          nalloc |-> l.nalloc,
          mem    |-> Append(l.mem, [i \in 1 .. l.nalloc |-> <<>>])]

\* The cell the next element goes to.
Slot(l) == l.part[l.last].off + l.part[l.last].nelts + 1

Stored(l, h) ==
    [l EXCEPT !.mem[l.part[l.last].block][Slot(l)] = h,
              !.part[l.last].nelts = @ + 1]
Push(l, h) == Stored(Grown(l), h)

\* Behaviours are followed as long as pushes stay inside their allocation.
Fits(l) == Slot(Grown(l)) <= Len(Grown(l).mem[Grown(l).part[Grown(l).last].block])

-----------------------------------------------------------------------------
(* ngx_mrb_del_request_header.                                             *)

\* The header it takes: the first whose name begins with key.
Matches(h, key) == <<key, h.key>> \in Begins
HasMatch(l, key) == \E h \in ToSet(Contents(l)) : Matches(h, key)
MatchPart(l, key) ==
    LET c == Chain(l)
    IN  c[CHOOSE j \in 1 .. Len(c) :
            /\ \E i \in 1 .. Len(Elts(l, c[j])) : Matches(Elts(l, c[j])[i], key)
            /\ \A k \in 1 .. j - 1 :
                 ~ \E i \in 1 .. Len(Elts(l, c[k])) : Matches(Elts(l, c[k])[i], key)]
MatchIndex(l, key) ==
    SelectInSeq(Elts(l, MatchPart(l, key)), LAMBDA h : Matches(h, key))

Previous(l, p) == CHOOSE q \in ToSet(Chain(l)) : l.part[q].next = p

\* The first element of a part: the part starts one later; a part without
\* elements is unlinked, and the embedded first part is overwritten by a
\* copy of the second.
Unlinked(l, p) ==
    IF p = First
    THEN IF l.part[p].next = Null THEN [l EXCEPT !.part[p].nelts = 0]
         ELSE [l EXCEPT !.part[p] = l.part[l.part[p].next]]
    ELSE [l EXCEPT !.part[Previous(l, p)].next = l.part[p].next,
                   !.last = IF @ = p THEN Previous(l, p) ELSE @]
WithoutFirstKeepsPart(l, p) ==
    [l EXCEPT !.part[p].off = @ + 1, !.part[p].nelts = @ - 1]
WithoutFirst(l, p) ==
    IF l.part[p].nelts = 1 THEN Unlinked(l, p)
    ELSE [l EXCEPT !.part[p].off = @ + 1, !.part[p].nelts = @ - 1]

\* The last element of a part: the part, and in the last part the size of
\* all further parts, shrinks by one.
WithoutLast(l, p) ==
    [l EXCEPT !.part[p].nelts = @ - 1,
              !.nalloc = IF p = l.last THEN @ - 1 ELSE @]

\* An element in between: what follows it becomes a part of its own.
SplitLosesLink(l, p, i) ==
    [l EXCEPT !.part = [Append(l.part, [block |-> l.part[p].block,
                                        off   |-> l.part[p].off + i,
                                        nelts |-> l.part[p].nelts - i,
                                        next  |-> Null])
                          EXCEPT ![p].nelts = i - 1, ![p].next = Len(l.part) + 1],
              !.last = IF @ = p THEN Len(l.part) + 1 ELSE @]
Split(l, p, i) ==
    [l EXCEPT !.part = [Append(l.part, [block |-> l.part[p].block,
                                        off   |-> l.part[p].off + i,
                                        nelts |-> l.part[p].nelts - i,
                                        next  |-> l.part[p].next])
                          EXCEPT ![p].nelts = i - 1, ![p].next = Len(l.part) + 1],
              !.last = IF @ = p THEN Len(l.part) + 1 ELSE @]

Del(l, key) ==
    LET p == MatchPart(l, key)
        i == MatchIndex(l, key)
    IN  CASE ~HasMatch(l, key) -> l
          [] HasMatch(l, key) /\ i = 1 -> WithoutFirst(l, p)
          [] HasMatch(l, key) /\ i # 1 /\ i = l.part[p].nelts -> WithoutLast(l, p)
          [] OTHER -> Split(l, p, i)

\* Deleting as long as the name is found.
DeletedOnce(l, key) == Del(l, key)
Deleted(l, key) ==
    LET rest[n \in 0 .. Len(Contents(l))] ==
          IF n = 0 THEN l
          ELSE LET m == rest[n - 1]
               IN  IF Get(m, key) = <<>> THEN m ELSE Del(m, key)
    IN  rest[Len(Contents(l))]

-----------------------------------------------------------------------------
Seqs(n) == UNION {[1 .. m -> Header] : m \in 0 .. n}

\* A list as nginx leaves it: created empty, the headers pushed one by one.
Created ==
    [part   |-> <<[block |-> 1, off |-> 0, nelts |-> 0, next |-> Null]>>,
     last   |-> First,
     nalloc |-> NAlloc,
     mem    |-> <<[i \in 1 .. NAlloc |-> <<>>]>>]

Init ==
    /\ \E hs \in Seqs(MaxHeaders) : headers = FoldLeft(Push, Created, hs)
    /\ op = [kind |-> "none"]

\* headers[key] = value
Set(key, value) ==
    /\ Fits(Deleted(headers, key))
    /\ headers' = Push(Deleted(headers, key), [key |-> key, value |-> value])
    /\ op' = [kind |-> "set", key |-> key, value |-> value]

\* headers[key] = nil
SetNil(key) ==
    /\ headers' = Deleted(headers, key)
    /\ op' = [kind |-> "nil", key |-> key]

\* headers.delete(key)
Delete(key) ==
    /\ headers' = Del(headers, key)
    /\ op' = [kind |-> "delete", key |-> key]

\* headers[key] = [value, value2]
SetArray(key, value, value2) ==
    LET one == Push(Deleted(headers, key), [key |-> key, value |-> value])
    IN  /\ Fits(Deleted(headers, key)) /\ Fits(one)
        /\ headers' = Push(one, [key |-> key, value |-> value2])
        /\ op' = [kind |-> "array", key |-> key]

Next ==
    /\ \E key \in Keys :
         \/ SetNil(key) \/ Delete(key)
         \/ \E value \in Values :
              \/ Set(key, value)
              \/ \E value2 \in Values : SetArray(key, value, value2)
    /\ Len(headers'.part) <= MaxParts

Spec == Init /\ [][Next]_vars

-----------------------------------------------------------------------------
(* Properties.                                                             *)

\* The next pointers never form a cycle, only the first part may be empty,
\* and only alone, and every part lies over cells that were written: the
\* loops over the list end and read no element that is not there.
WellLinked ==
    LET c == Chain(headers)
    IN  /\ headers.part[Last(c)].next = Null
        /\ IsInjective(c)
        /\ Len(c) > 1 => \A i \in 1 .. Len(c) : headers.part[c[i]].nelts > 0
        /\ ToSet(Contents(headers)) \subseteq Header

\* No other name begins with this one.
Alone(key) == \A k \in Keys : <<key, k>> \in Begins => k = key

\* However a part is moved, cut or split, headers.delete(key) takes one header
\* out of the list and keeps the others in their order; only when there is
\* none of the name may it take none.  It is a header of the name, unless
\* another name begins with it: names are compared up to the length of key,
\* and the first header that matches goes, of whichever name.
DeleteTakesOne ==
    [][op'.kind = "delete" =>
         \/ headers' = headers /\ Get(headers, op'.key) = <<>>
         \/ \E i \in 1 .. Len(Contents(headers)) :
              /\ Contents(headers') = RemoveAt(Contents(headers), i)
              /\ Alone(op'.key) => Contents(headers)[i].key = op'.key]_vars

\* headers[key] = nil leaves no header of that name, repeated or not.
NilRemovesAll == op.kind = "nil" => Get(headers, op.key) = <<>>

\* "hin[k] = v; hin[k] #=> v": a header that was set can be read.
SetVisible ==
    op.kind = "set" => Get(headers, op.key) = <<[key |-> op.key, value |-> op.value]>>

\* A header that was set is read back, alone, as long as headers->last is a
\* part the loops reach: no deletion leaves it pointing into the list at a
\* place where the pushed header would cover another one.
SetReadBack ==
    op.kind = "set" /\ headers.last \in ToSet(Chain(headers)) =>
        Get(headers, op.key) = <<[key |-> op.key, value |-> op.value]>>
=============================================================================
