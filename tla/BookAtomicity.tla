--------------------------- MODULE BookAtomicity ---------------------------
(***************************************************************************)
(* A submit in closed form.  The resting orders within its limit stand in  *)
(* one line, best price first and oldest first at a price, and each gives  *)
(* what those ahead of it leave to be given.  There is no loop here; the   *)
(* rounds of the matching loop are shown to come to the same.              *)
(***************************************************************************)
EXTENDS LimitOrderBook

AtMost(n, all) == IF n > all THEN all ELSE n
NotBelowZero(n) == IF n < 0 THEN 0 ELSE n

\* The resting orders the taker may trade with, in their priority.
Line ==
  LET side   == Opposite(taker.side)
      within == {p \in Prices : Crosses(taker.side, taker.price, p)}
      ranked == SetToSortSeq(within, LAMBDA p, q : Better(side, p, q))
      At(p)  == [i \in DOMAIN book[side][p] |->
                   [id |-> book[side][p][i].id, qty |-> book[side][p][i].qty, price |-> p]]
  IN  FlattenSeq([k \in DOMAIN ranked |-> At(ranked[k])])

\* What the first k of a line have.
Supply(line, k) == FoldSeq(LAMBDA maker, sum : maker.qty + sum, 0, SubSeq(line, 1, k))

\* The trades and the book once the taker is done with.
Settled ==
  LET line  == Line
      share == [k \in DOMAIN line |->
                  AtMost(NotBelowZero(taker.qty - Supply(line, k - 1)), line[k].qty)]
      left  == NotBelowZero(taker.qty - Supply(line, Len(line)))
      Given(id) == LET k == SelectInSeq(line, LAMBDA maker : maker.id = id)
                   IN  IF k = 0 THEN 0 ELSE share[k]
      Reduced(queue) == [i \in DOMAIN queue |-> [queue[i] EXCEPT !.qty = @ - Given(queue[i].id)]]
      Kept(queue)    == SelectSeq(Reduced(queue), LAMBDA maker : maker.qty > 0)
      Joined(queue)  == Append(queue, [id |-> taker.id, qty |-> left])
  IN  [trades |-> trades \o [k \in {j \in DOMAIN line : share[j] > 0} |->
         [maker_id |-> line[k].id, taker_id |-> taker.id, price |-> line[k].price,
          qty |-> share[k]]],
       book |-> [s \in Sides |-> [p \in Prices |->
         IF s # taker.side THEN Kept(book[s][p])
         ELSE IF p = taker.price /\ left > 0 THEN Joined(book[s][p])
         ELSE book[s][p]]]]

\* The caller's view when a submit counts as done from the moment it is accepted.
View == IF taker = NoOrder THEN [trades |-> trades, book |-> book] ELSE Settled

\* SubmitIsAtomic: what a submit trades and leaves is fixed when it is accepted
\* and given by the closed form: no round of the matching loop, and no resting
\* of the remainder, does anything but carry it out.
SubmitIsAtomic == [][taker # NoOrder => View' = View]_vars

=============================================================================
