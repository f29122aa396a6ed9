------------------------------ MODULE Sifting -------------------------------
(***************************************************************************)
(* What the loops of the code do to arrays and maps.  The operators of the *)
(* community modules take an operator; these take a set or a function.     *)
(***************************************************************************)
EXTENDS Integers, Sequences

\* Array.prototype.filter and the deletion of entries from a Map: the entries
\* of a sequence that are in a set, in their order.
Kept(s, set) ==
  LET kept[i \in 0..Len(s)] ==
        IF i = 0 THEN <<>>
        ELSE IF s[i] \in set THEN Append(kept[i - 1], s[i])
        ELSE kept[i - 1]
  IN kept[Len(s)]

\* Array.prototype.map.
Mapped(f, s) ==
  LET mapped[i \in 0..Len(s)] ==
        IF i = 0 THEN <<>> ELSE Append(mapped[i - 1], f[s[i]])
  IN mapped[Len(s)]

\* for (const x of s) acc = step[acc][x].
Loop(step, base, s) ==
  LET turn[i \in 0..Len(s)] ==
        IF i = 0 THEN base ELSE step[turn[i - 1]][s[i]]
  IN turn[Len(s)]

\* A Set or the keys of a Map, in the order in which entries of E were added.
Firsts(E, s) ==
  LET Add(seen, x) == IF \E i \in DOMAIN seen : seen[i] = x THEN seen ELSE Append(seen, x)
  IN Loop([seen \in Seq(E) |-> [x \in E |-> Add(seen, x)]], <<>>, s)

\* The values of a Map from g[x] to the array of the x that have it.
GroupedBy(g, s) ==
  LET values == {g[x] : x \in DOMAIN g}
  IN Mapped([n \in values |-> Kept(s, {x \in DOMAIN g : g[x] = n})],
            Firsts(values, Mapped(g, s)))
=============================================================================
