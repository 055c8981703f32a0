---------------------------- MODULE FetchHeaders ----------------------------
(***************************************************************************)
(* The Headers of src/js/facade/extensions/fetch.js: entries in the order  *)
(* their names came in, each under its name in lower case, with the casing *)
(* it came in and the values it got.                                       *)
(***************************************************************************)
EXTENDS Naturals, Sequences, SequencesExt, FiniteSetsExt

CONSTANT MaxHeaderOps  \* bound on the calls on headers

VARIABLE headers       \* two Headers objects

HeaderNames == {"Accept", "accept", "Cookie"}
Lower(name) == IF name = "Accept" THEN "accept" ELSE IF name = "Cookie" THEN "cookie" ELSE name
IsHeaderForbidden(key) == key = "cookie"
HeaderObjects == 1..2
HeadersInit == headers = [entries |-> [h \in HeaderObjects |-> <<>>], calls |-> [h \in HeaderObjects |-> <<>>], ops |-> 0]

Entry(h, key) == SelectSeq(headers.entries[h], LAMBDA e : e.key = key)
Has(h, key) == Entry(h, key) # <<>>
Replaced(h, key, entry) == [i \in DOMAIN headers.entries[h] |-> IF headers.entries[h][i].key = key THEN entry ELSE headers.entries[h][i]]
Wrote(h, entries, op, name, value) ==
  /\ headers.ops < MaxHeaderOps
  /\ headers' = [headers EXCEPT !.entries[h] = entries, !.ops = @ + 1,
                                !.calls[h] = Append(@, [op |-> op, name |-> name, key |-> Lower(name), value |-> value])]

HeaderAppend(h, name, value) ==
  LET key == Lower(name) IN
  Wrote(h, IF Has(h, key) THEN Replaced(h, key, [Entry(h, key)[1] EXCEPT !.values = Append(@, value)])
           ELSE Append(headers.entries[h], [key |-> key, name |-> name, values |-> <<value>>]), "append", name, value)
HeaderSet(h, name, value) ==
  LET key == Lower(name) entry == [key |-> key, name |-> name, values |-> <<value>>] IN
  Wrote(h, IF Has(h, key) THEN Replaced(h, key, entry) ELSE Append(headers.entries[h], entry), "set", name, value)
HeaderDelete(h, name) == Wrote(h, SelectSeq(headers.entries[h], LAMBDA e : e.key # Lower(name)), "delete", name, 0)
\* new Headers(other) copies the entries; removeForbiddenHeaders then takes
\* from a request's copy what a request may not say.
HeadersCopied(h, g, forRequest) ==
  LET kept(e) == ~(forRequest /\ IsHeaderForbidden(e.key)) IN
  /\ headers.ops < MaxHeaderOps /\ h # g
  /\ headers' = [headers EXCEPT !.entries[g] = SelectSeq(headers.entries[h], kept),
                                !.calls[g] = SelectSeq(headers.calls[h], kept), !.ops = @ + 1]

HeaderMoves ==
  \E h \in HeaderObjects :
    \/ \E name \in HeaderNames, value \in 1..2 : HeaderAppend(h, name, value) \/ HeaderSet(h, name, value)
    \/ \E name \in HeaderNames : HeaderDelete(h, name)
    \/ \E g \in HeaderObjects, forRequest \in BOOLEAN : HeadersCopied(h, g, forRequest)

\* What a Headers object reads is what the calls on it, and those on the one it
\* was copied from until then, left standing: no later call on either shows in
\* the other, and names come in the order of the calls that first said them.
Standing(h, p) ==
  LET calls == headers.calls[h] IN
  calls[p].op # "delete" /\ ~\E q \in (p + 1)..Len(calls) : calls[q].key = calls[p].key /\ calls[q].op # "append"
Started(h, key) ==
  LET calls == headers.calls[h]
      deleted == {p \in DOMAIN calls : calls[p].key = key /\ calls[p].op = "delete"}
  IN Min({p \in DOMAIN calls : calls[p].key = key /\ \A d \in deleted : p > d})
HeadersReplay ==
  \A h \in HeaderObjects :
    LET calls == headers.calls[h]
        standing == SelectSeq([p \in DOMAIN calls |-> p], LAMBDA p : Standing(h, p))
        of(key) == SelectSeq(standing, LAMBDA p : calls[p].key = key)
        entries == headers.entries[h]
    IN /\ {entries[i].key : i \in DOMAIN entries} = {calls[p].key : p \in Range(standing)}
       /\ \A i \in DOMAIN entries :
            /\ entries[i].values = [k \in DOMAIN of(entries[i].key) |-> calls[of(entries[i].key)[k]].value]
            /\ entries[i].name = calls[of(entries[i].key)[1]].name
            /\ i > 1 => Started(h, entries[i - 1].key) < Started(h, entries[i].key)
=============================================================================
