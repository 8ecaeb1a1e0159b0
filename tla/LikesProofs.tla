----------------------------- MODULE LikesProofs -----------------------------
(***************************************************************************)
(* Theorems about Likes, for any number of cards, users and tabs: the      *)
(* likes are what the events add up to, the count of an event that was     *)
(* alone is right, and a response names its own event or one of a          *)
(* concurrent toggle.                                                      *)
(***************************************************************************)
EXTENDS Likes, FiniteSetTheorems, TLAPS

LikeRows   == [item : Items, user : Users]
LikeEvents == [type : {"ITEM_LIKED", "ITEM_UNLIKED"}, item : Items, by : Users, count : Nat]
TxStates   == [pc : {"idle", "check", "write", "lookup", "load", "commit"},
               item : Items \cup {None}, had : BOOLEAN, own : Nat, header : Nat, shown : Nat]

\* Every variable has its type, and the rows and the ids are finitely many.
TypeOK ==
    /\ board \in BOOLEAN
    /\ likes \subseteq LikeRows /\ IsFiniteSet(likes) /\ (~ board => likes = {})
    /\ log \in Seq(LikeEvents)
    /\ committed \subseteq DOMAIN log /\ IsFiniteSet(committed)
    /\ tx \in [Tabs -> TxStates]
    /\ \A t \in Tabs : /\ tx[t].pc # "idle" => tx[t].item \in Items
                       /\ tx[t].pc \in {"idle", "check", "write"} => tx[t].own = Null

\* An open transaction that has written a row: its event is its own and not yet
\* committed, nobody else has its row, and the row is still as it found it.
OwnRow(t) ==
    /\ board
    /\ tx[t].own \in DOMAIN log \ committed
    /\ log[tx[t].own].item = tx[t].item
    /\ log[tx[t].own].by = Owner[t]
    /\ log[tx[t].own].type = IF tx[t].had THEN "ITEM_UNLIKED" ELSE "ITEM_LIKED"
    /\ tx[t].had <=> Row(t) \in likes
    /\ \A s \in Tabs \ {t} : tx[s].own # Null => tx[s].own # tx[t].own /\ Row(s) # Row(t)

\* Every event of the card that got its id after its own did so while it was open.
Later(t) ==
    \A f \in DOMAIN log :
        f > tx[t].own /\ log[f].item = tx[t].item => f \in overlap /\ tx[t].own \in overlap

\* What it counted is still so when nobody else toggled the card.
Counted(t) ==
    tx[t].own \notin overlap => log[tx[t].own].count = Count(Visible(t), tx[t].item)

WriterInv == \A t \in Tabs : tx[t].own # Null => OwnRow(t) /\ Later(t) /\ Counted(t)

LastInv ==
    \A i \in Items, e \in committed \ overlap :
        IsLastTold(i, e) => log[e].count = Count(likes, i)

LikesInv == TypeOK /\ WriterInv /\ HeaderOwnOrConcurrent /\ LastInv /\ LikesMatchLog

-----------------------------------------------------------------------------
\* A count is a number.
LEMMA CountType ==
    ASSUME NEW rows, IsFiniteSet(rows), NEW i
    PROVE  Count(rows, i) \in Nat
<1>1. IsFiniteSet({l \in rows : l.item = i})
  BY FS_Subset
<1> QED BY <1>1, FS_CardinalityType DEF Count

\* Toggling the row of a card changes no other card's count.
LEMMA CountOther ==
    ASSUME NEW rows, NEW row, NEW i, row.item # i
    PROVE  /\ Count(rows \cup {row}, i) = Count(rows, i)
           /\ Count(rows \ {row}, i) = Count(rows, i)
<1>1. /\ {l \in rows \cup {row} : l.item = i} = {l \in rows : l.item = i}
      /\ {l \in rows \ {row} : l.item = i} = {l \in rows : l.item = i}
  OBVIOUS
<1> QED BY <1>1 DEF Count

\* What a transaction sees after its own toggle is a finite set of rows.
LEMMA ToggleType ==
    ASSUME LikesAssumption, TypeOK, NEW t \in Tabs, tx[t].item \in Items
    PROVE  /\ Row(t) \in LikeRows
           /\ likes \cup {Row(t)} \subseteq LikeRows /\ IsFiniteSet(likes \cup {Row(t)})
           /\ likes \ {Row(t)} \subseteq LikeRows /\ IsFiniteSet(likes \ {Row(t)})
           /\ Visible(t) \subseteq LikeRows /\ IsFiniteSet(Visible(t))
<1>1. Row(t) \in LikeRows
  BY DEF Row, LikeRows, LikesAssumption
<1>2. IsFiniteSet(likes \cup {Row(t)}) /\ IsFiniteSet(likes \ {Row(t)})
  BY FS_AddElement, FS_RemoveElement DEF TypeOK
<1> QED BY <1>1, <1>2 DEF Visible, TypeOK

\* A request that begins, reads, or is dropped, and leaves the database alone.
LEMMA QuietStep ==
    ASSUME LikesAssumption, LikesInv, UNCHANGED <<board, likes, log, committed, overlap>>,
           NEW t \in Tabs, NEW new \in TxStates, tx' = [tx EXCEPT ![t] = new],
           new.pc # "idle" => new.item \in Items,
           new.pc \in {"idle", "check", "write"} => new.own = Null,
           new.own # Null =>
               new.own = tx[t].own /\ new.item = tx[t].item /\ new.had = tx[t].had,
           new.own # Null /\ new.pc \in {"load", "commit"} =>
               /\ new.header >= new.own
               /\ new.header # new.own => {new.own, new.header} \subseteq overlap
    PROVE  LikesInv'
<1> USE DEF LikesInv
<1>1. tx'[t] = new /\ \A s \in Tabs \ {t} : tx'[s] = tx[s]
  BY DEF TypeOK
<1>2. TypeOK'
  BY <1>1 DEF TypeOK
<1>3. \A s \in Tabs : tx'[s].own # Null =>
          /\ tx[s].own # Null /\ tx'[s].own = tx[s].own
          /\ tx'[s].item = tx[s].item /\ tx'[s].had = tx[s].had
          /\ Row(s)' = Row(s) /\ Visible(s)' = Visible(s)
  BY <1>1 DEF Row, Visible, Writers
<1>4. ASSUME NEW s \in Tabs, tx'[s].own # Null
      PROVE  OwnRow(s)' /\ Later(s)' /\ Counted(s)'
  <2>1. OwnRow(s) /\ Later(s) /\ Counted(s)
    BY <1>3, <1>4 DEF WriterInv
  <2>2. OwnRow(s)'
    BY <1>3, <1>4, <2>1 DEF OwnRow
  <2>3. Later(s)' /\ Counted(s)'
    BY <1>3, <1>4, <2>1 DEF Later, Counted
  <2> QED BY <2>2, <2>3
<1>5. WriterInv'
  BY <1>4 DEF WriterInv
<1>6. HeaderOwnOrConcurrent'
  BY <1>1 DEF HeaderOwnOrConcurrent, Writers
<1>7. LastInv' /\ LikesMatchLog'
  BY DEF LastInv, IsLastTold, LikesMatchLog, Events
<1> QED BY <1>2, <1>5, <1>6, <1>7

\* A toggle writes its row and its event: others that are open for the card are
\* marked with it.
LEMMA EmitStep ==
    ASSUME LikesAssumption, LikesInv, NEW t \in Tabs, tx[t].pc = "write", board,
           ~ RowLocked(t), tx[t].had <=> Row(t) \in likes, EmitLikeEvent(t),
           UNCHANGED <<board, likes, committed>>
    PROVE  LikesInv'
<1> USE DEF LikesInv
<1> DEFINE e == Len(log) + 1
           i == tx[t].item
           ev == [type |-> IF tx[t].had THEN "ITEM_UNLIKED" ELSE "ITEM_LIKED",
                  item |-> i, by |-> Owner[t], count |-> CountAfter(t)]
           others == {s \in Writers : tx[s].item = i}
<1>1. /\ log \in Seq(LikeEvents) /\ tx \in [Tabs -> TxStates] /\ tx[t] \in TxStates
      /\ i \in Items /\ tx[t].own = Null /\ DOMAIN log = 1 .. Len(log) /\ Len(log) \in Nat
      /\ e \in Nat
  BY DEF TypeOK
<1>2. ev \in LikeEvents
  <2>1. CountAfter(t) \in Nat
    BY <1>1, ToggleType, CountType DEF CountAfter
  <2>2. Owner[t] \in Users
    BY DEF LikesAssumption
  <2> QED BY <1>1, <2>1, <2>2 DEF LikeEvents
<1>3. log' = Append(log, ev)
  BY DEF EmitLikeEvent
<1>4. /\ tx'[t].pc = "lookup" /\ tx'[t].own = e /\ tx'[t].item = i /\ tx'[t].had = tx[t].had
      /\ tx'[t] \in TxStates /\ \A s \in Tabs \ {t} : tx'[s] = tx[s]
  BY <1>1 DEF EmitLikeEvent, TxStates
<1>5. overlap' = IF others = {} THEN overlap
                 ELSE overlap \cup {e} \cup {tx[s].own : s \in others}
  BY DEF EmitLikeEvent
<1> HIDE DEF ev, others, e, i
<1>6. /\ DOMAIN log' = DOMAIN log \cup {e} /\ log'[e] = ev /\ e \notin DOMAIN log
      /\ \A f \in DOMAIN log : log'[f] = log[f] /\ f < e /\ f # e
      /\ log' \in Seq(LikeEvents)
  BY <1>1, <1>2, <1>3 DEF e
<1>7. /\ ev.type = (IF tx[t].had THEN "ITEM_UNLIKED" ELSE "ITEM_LIKED")
      /\ ev.item = i /\ ev.by = Owner[t] /\ ev.count = CountAfter(t)
  BY DEF ev
<1>8. TypeOK'
  <2>1. /\ \A s \in Tabs : tx'[s] \in TxStates
        /\ tx' = [tx EXCEPT ![t].pc = "lookup", ![t].own = e]
    BY <1>1, <1>4 DEF EmitLikeEvent, e
  <2>2. tx' \in [Tabs -> TxStates]
    BY <1>1, <2>1
  <2>3. \A s \in Tabs : /\ tx'[s].pc # "idle" => tx'[s].item \in Items
                        /\ tx'[s].pc \in {"idle", "check", "write"} => tx'[s].own = Null
    BY <1>1, <1>4 DEF TypeOK
  <2> QED BY <1>6, <2>2, <2>3 DEF TypeOK
<1>9. /\ e # Null /\ e \notin committed
      /\ \A s \in Tabs \ {t} : tx[s].own # Null => tx[s].own \in DOMAIN log /\ Row(s) # Row(t)
  <2>1. e # Null
    BY <1>1 DEF e, Null
  <2>2. \A s \in Tabs \ {t} : tx[s].own # Null => Row(s) # Row(t)
    BY DEF RowLocked, Writers
  <2> QED BY <1>6, <2>1, <2>2 DEF TypeOK, WriterInv, OwnRow
<1>10. /\ Row(t)' = Row(t)
       /\ \A s \in Tabs \ {t} : Row(s)' = Row(s) /\ Visible(s)' = Visible(s)
  BY <1>4 DEF Row, Visible, Writers, i
<1>11. ASSUME NEW s \in Tabs \ {t}, tx[s].own # Null
       PROVE  OwnRow(s)' /\ Later(s)' /\ Counted(s)'
  <2>1. OwnRow(s) /\ Later(s) /\ Counted(s)
    BY <1>11 DEF WriterInv
  <2>2. OwnRow(s)'
    BY <2>1, <1>4, <1>6, <1>9, <1>10, <1>11 DEF OwnRow
  <2>3. Later(s)'
    <3>1. tx[s].item = i => s \in others
      BY <1>11 DEF others, Writers
    <3>2. tx[s].item = i => e \in overlap' /\ tx[s].own \in overlap'
      BY <3>1, <1>5
    <3> QED BY <2>1, <3>2, <1>4, <1>5, <1>6, <1>7, <1>11 DEF Later
  <2>4. Counted(s)'
    <3>1. tx[s].own \in DOMAIN log
      BY <1>9, <1>11
    <3> QED BY <2>1, <3>1, <1>4, <1>5, <1>6, <1>10, <1>11 DEF Counted
  <2> QED BY <2>2, <2>3, <2>4
<1>12. OwnRow(t)' /\ Later(t)' /\ Counted(t)'
  <2>1. OwnRow(t)'
    BY <1>4, <1>6, <1>7, <1>9, <1>10 DEF OwnRow
  <2>2. Later(t)'
    <3>1. \A f \in DOMAIN log' : ~ (f > e)
      BY <1>1, <1>6
    <3> QED BY <3>1, <1>4 DEF Later
  <2>3. Counted(t)'
    <3>1. Visible(t)' = IF tx[t].had THEN likes \ {Row(t)} ELSE likes \cup {Row(t)}
      BY <1>4, <1>9, <1>10 DEF Visible, Writers
    <3> QED BY <3>1, <1>4, <1>6, <1>7 DEF Counted, CountAfter, i
  <2> QED BY <2>1, <2>2, <2>3
<1>13. WriterInv'
  BY <1>4, <1>11, <1>12 DEF WriterInv
<1>14. HeaderOwnOrConcurrent'
  BY <1>4, <1>5 DEF HeaderOwnOrConcurrent, Writers
<1>15. \A f \in committed : f \in DOMAIN log /\ log'[f] = log[f]
  BY <1>6 DEF TypeOK
<1>16. LastInv'
  BY <1>5, <1>15 DEF LastInv, IsLastTold
<1>17. LikesMatchLog'
  <2>1. \A j, type, u : Events(j, type, u)' = Events(j, type, u)
    BY <1>15 DEF Events
  <2> QED BY <2>1 DEF LikesMatchLog
<1> QED BY <1>8, <1>13, <1>14, <1>16, <1>17

\* The events that count for a user and a card after the commit of tab t.
LEMMA CommitMatch ==
    ASSUME LikesAssumption, LikesInv, NEW t \in Tabs, tx[t].own # Null, Commit(t),
           NEW j \in Items, NEW u \in Users
    PROVE  Cardinality(Events(j, "ITEM_LIKED", u)') - Cardinality(Events(j, "ITEM_UNLIKED", u)')
             = IF [item |-> j, user |-> u] \in likes' THEN 1 ELSE 0
<1> USE DEF LikesInv
<1> DEFINE own == tx[t].own
           row == [item |-> j, user |-> u]
           liked == Events(j, "ITEM_LIKED", u)
           unliked == Events(j, "ITEM_UNLIKED", u)
           new(S, type) == IF log[own].item = j /\ log[own].type = type /\ log[own].by = u
                           THEN S \cup {own} ELSE S
<1>1. /\ board /\ OwnRow(t) /\ committed' = committed \cup {own} /\ log' = log
      /\ likes' = IF tx[t].had THEN likes \ {Row(t)} ELSE likes \cup {Row(t)}
  BY DEF WriterInv, OwnRow, Commit, Visible, Writers
<1>2. Cardinality(liked) - Cardinality(unliked) = IF row \in likes THEN 1 ELSE 0
  BY <1>1 DEF LikesMatchLog
<1>3. IsFiniteSet(liked) /\ IsFiniteSet(unliked) /\ own \notin liked /\ own \notin unliked
  <2>1. IsFiniteSet(committed) /\ liked \subseteq committed /\ unliked \subseteq committed
    BY DEF TypeOK, Events
  <2>2. own \notin committed
    BY <1>1 DEF OwnRow
  <2> QED BY <2>1, <2>2, FS_Subset
<1>4. Events(j, "ITEM_LIKED", u)' = new(liked, "ITEM_LIKED")
  BY <1>1 DEF Events
<1>5. Events(j, "ITEM_UNLIKED", u)' = new(unliked, "ITEM_UNLIKED")
  BY <1>1 DEF Events
<1>6. /\ Cardinality(liked) \in Nat /\ Cardinality(unliked) \in Nat
      /\ Cardinality(liked \cup {own}) = Cardinality(liked) + 1
      /\ Cardinality(unliked \cup {own}) = Cardinality(unliked) + 1
  BY <1>3, FS_CardinalityType, FS_AddElement
<1>7. CASE row = Row(t)
  <2>1. j = tx[t].item /\ u = Owner[t]
    BY <1>7 DEF Row
  <2>2. /\ log[own].item = j /\ log[own].by = u
        /\ log[own].type = IF tx[t].had THEN "ITEM_UNLIKED" ELSE "ITEM_LIKED"
        /\ tx[t].had <=> row \in likes
    BY <1>1, <1>7, <2>1 DEF OwnRow
  <2> HIDE DEF liked, unliked, own, row
  <2>3. CASE tx[t].had
    <3>1. row \in likes /\ row \notin likes'
      BY <1>1, <1>7, <2>2, <2>3
    <3>2. new(liked, "ITEM_LIKED") = liked /\ new(unliked, "ITEM_UNLIKED") = unliked \cup {own}
      BY <2>2, <2>3
    <3>3. /\ Events(j, "ITEM_LIKED", u)' = liked
          /\ Events(j, "ITEM_UNLIKED", u)' = unliked \cup {own}
      BY <1>4, <1>5, <3>2
    <3>4. Cardinality(liked) - (Cardinality(unliked) + 1) = 0
      BY <1>2, <1>6, <3>1
    <3> QED BY <1>6, <3>1, <3>3, <3>4 DEF row
  <2>4. CASE ~ tx[t].had
    <3>1. row \notin likes /\ row \in likes'
      BY <1>1, <1>7, <2>2, <2>4
    <3>2. new(liked, "ITEM_LIKED") = liked \cup {own} /\ new(unliked, "ITEM_UNLIKED") = unliked
      BY <2>2, <2>4
    <3>3. /\ Events(j, "ITEM_LIKED", u)' = liked \cup {own}
          /\ Events(j, "ITEM_UNLIKED", u)' = unliked
      BY <1>4, <1>5, <3>2
    <3>4. (Cardinality(liked) + 1) - Cardinality(unliked) = 1
      BY <1>2, <1>6, <3>1
    <3> QED BY <1>6, <3>1, <3>3, <3>4 DEF row
  <2> QED BY <2>3, <2>4
<1>8. CASE row # Row(t)
  <2>1. row \in likes' <=> row \in likes
    BY <1>1, <1>8
  <2>2. ~ (log[own].item = j /\ log[own].by = u)
    BY <1>1, <1>8 DEF OwnRow, Row
  <2>3. new(liked, "ITEM_LIKED") = liked /\ new(unliked, "ITEM_UNLIKED") = unliked
    BY <2>2
  <2> QED BY <1>2, <1>4, <1>5, <2>1, <2>3
<1> QED BY <1>7, <1>8

\* A toggle becomes visible: the others that are open have other rows.
LEMMA CommitStep ==
    ASSUME LikesAssumption, LikesInv, NEW t \in Tabs, tx[t].own # Null, Commit(t)
    PROVE  LikesInv'
<1> USE DEF LikesInv
<1> DEFINE own == tx[t].own
           i == tx[t].item
<1>1. /\ OwnRow(t) /\ Later(t) /\ Counted(t) /\ tx \in [Tabs -> TxStates]
      /\ committed' = committed \cup {own} /\ UNCHANGED <<board, log, overlap>>
      /\ likes' = Visible(t)
      /\ Visible(t) = IF tx[t].had THEN likes \ {Row(t)} ELSE likes \cup {Row(t)}
  BY DEF WriterInv, Commit, Visible, Writers, TypeOK
<1>2. tx'[t] = Idle /\ \A s \in Tabs \ {t} : tx'[s] = tx[s]
  BY <1>1 DEF Commit
<1>3. tx[t].item \in Items /\ own \in DOMAIN log \ committed
  BY <1>1 DEF TypeOK, OwnRow
<1>4. TypeOK'
  <2>1. likes' \subseteq LikeRows /\ IsFiniteSet(likes')
    BY <1>1, <1>3, ToggleType
  <2>2. committed' \subseteq DOMAIN log' /\ IsFiniteSet(committed')
    BY <1>1, <1>3, FS_AddElement DEF TypeOK
  <2>3. Idle \in TxStates /\ tx' = [tx EXCEPT ![t] = Idle]
    BY DEF Idle, TxStates, Null, Commit
  <2>4. tx' \in [Tabs -> TxStates]
    BY <1>1, <2>3
  <2>5. \A s \in Tabs : /\ tx'[s].pc # "idle" => tx'[s].item \in Items
                        /\ tx'[s].pc \in {"idle", "check", "write"} => tx'[s].own = Null
    BY <1>2 DEF TypeOK, Idle
  <2>6. board /\ board' = board
    BY <1>1 DEF OwnRow
  <2> QED BY <1>1, <2>1, <2>2, <2>4, <2>5, <2>6 DEF TypeOK
<1>5. ASSUME NEW s \in Tabs, tx'[s].own # Null
      PROVE  OwnRow(s)' /\ Later(s)' /\ Counted(s)'
  <2>1. s # t /\ tx'[s] = tx[s] /\ Row(s)' = Row(s)
    BY <1>2, <1>5 DEF Idle, Row
  <2>2. OwnRow(s) /\ Later(s) /\ Counted(s)
    BY <1>5, <2>1 DEF WriterInv
  <2>3. Row(s) # Row(t) /\ tx[s].own # own
    BY <1>1, <1>5, <2>1 DEF OwnRow
  <2>4. Row(s) \in likes' <=> Row(s) \in likes
    BY <1>1, <2>3
  <2>5. OwnRow(s)'
    <3>1. \A r \in Tabs \ {s} : tx'[r].own # Null => tx[r].own # Null /\ tx'[r] = tx[r]
                                                        /\ Row(r)' = Row(r)
      BY <1>2 DEF Idle, Row
    <3> QED BY <1>1, <2>1, <2>2, <2>3, <2>4, <3>1, <1>5 DEF OwnRow
  <2>6. Later(s)'
    BY <1>1, <2>1, <2>2 DEF Later
  <2>7. Counted(s)'
    <3> SUFFICES ASSUME tx[s].own \notin overlap
                 PROVE  Count(Visible(s)', tx[s].item) = Count(Visible(s), tx[s].item)
      BY <1>1, <2>1, <2>2 DEF Counted
    <3>1. tx[s].item # i
      <4>1. own \in DOMAIN log /\ tx[s].own \in DOMAIN log /\ DOMAIN log \subseteq Nat
        BY <1>3, <2>2 DEF OwnRow, TypeOK
      <4>2. own > tx[s].own \/ tx[s].own > own
        BY <2>3, <4>1
      <4>3. log[own].item = i /\ log[tx[s].own].item = tx[s].item
        BY <1>1, <2>2 DEF OwnRow
      <4> QED BY <1>1, <2>2, <4>1, <4>2, <4>3 DEF Later
    <3>2. /\ Row(t).item = i
          /\ Visible(s) = IF tx[s].had THEN likes \ {Row(s)} ELSE likes \cup {Row(s)}
          /\ Visible(s)' = IF tx[s].had THEN likes' \ {Row(s)} ELSE likes' \cup {Row(s)}
      BY <1>5, <2>1 DEF Row, Visible, Writers
    <3>3. {l \in Visible(s)' : l.item = tx[s].item} = {l \in Visible(s) : l.item = tx[s].item}
      BY <1>1, <3>1, <3>2
    <3> QED BY <3>3 DEF Count
  <2> QED BY <2>5, <2>6, <2>7
<1>6. WriterInv'
  BY <1>5 DEF WriterInv
<1>7. HeaderOwnOrConcurrent'
  BY <1>1, <1>2 DEF HeaderOwnOrConcurrent, Writers, Idle
<1>8. LastInv'
  <2> SUFFICES ASSUME NEW j \in Items, NEW e \in committed' \ overlap, IsLastTold(j, e)'
               PROVE  log[e].count = Count(likes', j)
    BY <1>1 DEF LastInv
  <2>1. e \in committed' /\ log[e].item = j /\ \A f \in committed' : log[f].item = j => f <= e
    BY <1>1 DEF IsLastTold
  <2>2. CASE j = i
    <3>1. log[own].item = i /\ own <= e /\ own \in Nat /\ e \in DOMAIN log /\ e \in Nat
      BY <1>1, <1>3, <2>1, <2>2, <1>4 DEF OwnRow, TypeOK
    <3>2. e = own
      BY <1>1, <2>1, <2>2, <3>1 DEF Later
    <3> QED BY <1>1, <2>2, <3>2 DEF Counted
  <2>3. CASE j # i
    <3>1. log[own].item # j
      BY <1>1, <2>3 DEF OwnRow
    <3>2. e \in committed /\ IsLastTold(j, e)
      BY <1>1, <2>1, <3>1 DEF IsLastTold
    <3>3. Count(likes', j) = Count(likes, j)
      <4>1. Row(t).item # j
        BY <2>3 DEF Row
      <4> QED BY <1>1, <4>1, CountOther
    <3> QED BY <3>2, <3>3 DEF LastInv
  <2> QED BY <2>2, <2>3
<1>9. LikesMatchLog'
  BY CommitMatch DEF LikesMatchLog
<1> QED BY <1>4, <1>6, <1>7, <1>8, <1>9

-----------------------------------------------------------------------------
LEMMA DeleteStep ==
    ASSUME LikesAssumption, LikesInv, DeleteRetro
    PROVE  LikesInv'
<1> USE DEF LikesInv
<1>1. /\ board' = FALSE /\ likes' = {} /\ committed' = {} /\ UNCHANGED <<log, tx, overlap>>
      /\ \A t \in Tabs : tx[t].own = Null
  BY DEF DeleteRetro, Writers
<1>2. TypeOK'
  BY <1>1, FS_EmptySet DEF TypeOK
<1>3. WriterInv' /\ HeaderOwnOrConcurrent'
  BY <1>1 DEF WriterInv, HeaderOwnOrConcurrent, Writers
<1>4. LastInv' /\ LikesMatchLog'
  BY <1>1 DEF LastInv, LikesMatchLog
<1> QED BY <1>2, <1>3, <1>4

\* The header of a response is the newest event of its kind that it sees.
LEMMA LookupStep ==
    ASSUME LikesAssumption, LikesInv, NEW t \in Tabs, LookupEvent(t)
    PROVE  LikesInv'
<1> USE DEF LikesInv
<1> DEFINE own == tx[t].own
           found == {e \in EventsSeen(t) : log[e].item = tx[t].item /\ log[e].type \in OfType(t)}
<1>1. PICK h \in EventsSeen(t) \cup {Null} :
         /\ IF found = {} THEN h = Null ELSE h \in found /\ \A e \in found : e <= h
         /\ tx' = [tx EXCEPT ![t].pc = "load", ![t].header = h]
  BY DEF LookupEvent
<1>2. /\ tx[t].pc = "lookup" /\ UNCHANGED <<board, likes, log, committed, overlap>>
      /\ tx[t] \in TxStates /\ tx[t].item \in Items /\ tx \in [Tabs -> TxStates]
      /\ DOMAIN log \subseteq Nat
  BY DEF LookupEvent, TypeOK
<1>3. h \in Nat
  BY <1>1, <1>2 DEF EventsSeen, TypeOK, TxStates, Null
<1> DEFINE new == [tx[t] EXCEPT !.pc = "load", !.header = h]
<1>4. /\ new \in TxStates /\ new.pc = "load" /\ new.header = h /\ new.own = own
      /\ new.item = tx[t].item /\ new.had = tx[t].had
      /\ tx' = [tx EXCEPT ![t] = new]
  BY <1>1, <1>2, <1>3 DEF TxStates
<1>5. ASSUME own # Null
      PROVE  h >= own /\ (h # own => {own, h} \subseteq overlap)
  <2>1. OwnRow(t) /\ Later(t)
    BY <1>5 DEF WriterInv
  <2>2. own \in found
    BY <1>5, <2>1 DEF OwnRow, EventsSeen, OfType
  <2>3. h \in found /\ own <= h
    BY <1>1, <2>2
  <2>4. h \in DOMAIN log /\ own \in DOMAIN log /\ log[h].item = tx[t].item
    BY <2>1, <2>3 DEF EventsSeen, OwnRow, TypeOK
  <2>5. h # own => h > own
    BY <1>2, <2>3, <2>4
  <2> HIDE DEF own, found
  <2>6. h >= own
    BY <1>2, <2>3, <2>4
  <2> QED BY <2>1, <2>4, <2>5, <2>6 DEF Later, own
<1> HIDE DEF new, own
<1> QED BY <1>2, <1>4, <1>5, QuietStep DEF own

\* What else a tab does leaves the database alone.
LEMMA TabStep ==
    ASSUME LikesAssumption, LikesInv, NEW t \in Tabs,
           LikeItem(t) \/ Step(t) \/ Fails(t)
    PROVE  LikesInv'
<1> USE DEF LikesInv
<1>1. tx \in [Tabs -> TxStates] /\ tx[t] \in TxStates
  BY DEF TypeOK
<1>2. CASE LikeItem(t)
  <2>1. PICK i \in Items : tx' = [tx EXCEPT ![t] = [Idle EXCEPT !.pc = "check", !.item = i]]
    BY <1>2 DEF LikeItem
  <2>2. UNCHANGED <<board, likes, log, committed, overlap>>
    BY <1>2 DEF LikeItem
  <2> DEFINE new == [Idle EXCEPT !.pc = "check", !.item = i]
  <2>3. new \in TxStates /\ new.own = Null /\ new.item \in Items
    BY DEF Idle, TxStates, Null
  <2> HIDE DEF new
  <2> QED BY <2>1, <2>2, <2>3, QuietStep DEF new
<1>3. CASE CheckExisting(t)
  <2> DEFINE had == Row(t) \in likes
             new == [tx[t] EXCEPT !.pc = "write", !.had = had]
  <2>1. /\ tx' = [tx EXCEPT ![t] = new] /\ tx[t].pc = "check"
        /\ UNCHANGED <<board, likes, log, committed, overlap>>
    BY <1>1, <1>3 DEF CheckExisting
  <2>2. had \in BOOLEAN /\ tx[t].own = Null /\ tx[t].item \in Items
    BY <2>1 DEF TypeOK
  <2> HIDE DEF had
  <2>3. new \in TxStates /\ new.own = Null /\ new.item \in Items /\ new.pc = "write"
    BY <1>1, <2>2 DEF TxStates
  <2> HIDE DEF new
  <2> QED BY <2>1, <2>3, QuietStep
<1>4. CASE DeleteLike(t)
  <2>1. /\ tx[t].pc = "write" /\ tx[t].had /\ ~ RowLocked(t)
        /\ UNCHANGED <<board, likes, committed>> /\ tx[t].item \in Items
    BY <1>4 DEF DeleteLike, TypeOK
  <2>2. CASE Deletes(t)
    <3>1. board
      BY <2>2 DEF Deletes, TypeOK
    <3> QED BY <1>4, <2>1, <2>2, <3>1, EmitStep DEF DeleteLike, Deletes
  <2>3. CASE ~ Deletes(t)
    <3> DEFINE new == [tx[t] EXCEPT !.pc = "lookup"]
    <3>1. /\ tx' = [tx EXCEPT ![t] = new] /\ UNCHANGED <<board, likes, log, committed, overlap>>
      BY <1>4, <2>1, <2>3 DEF DeleteLike
    <3>2. new \in TxStates /\ new.own = Null /\ new.item \in Items
      BY <1>1, <2>1 DEF TypeOK, TxStates
    <3> HIDE DEF new
    <3> QED BY <3>1, <3>2, QuietStep
  <2> QED BY <2>2, <2>3
<1>5. CASE InsertLike(t)
  BY <1>5, EmitStep DEF InsertLike
<1>6. CASE LookupEvent(t)
  BY <1>6, LookupStep
<1>7. CASE LoadItem(t)
  <2> DEFINE new == [tx[t] EXCEPT !.pc = "commit", !.shown = Count(Visible(t), tx[t].item)]
  <2>1. /\ tx' = [tx EXCEPT ![t] = new] /\ tx[t].pc = "load" /\ tx[t].item \in Items
        /\ UNCHANGED <<board, likes, log, committed, overlap>>
    BY <1>1, <1>7 DEF LoadItem, TypeOK
  <2>2. Count(Visible(t), tx[t].item) \in Nat
    BY <2>1, ToggleType, CountType
  <2>3. /\ new \in TxStates /\ new.own = tx[t].own /\ new.item = tx[t].item
        /\ new.had = tx[t].had /\ new.header = tx[t].header /\ new.pc = "commit"
    BY <1>1, <2>2 DEF TxStates
  <2>4. tx[t].own # Null =>
            /\ tx[t].header >= tx[t].own
            /\ tx[t].header # tx[t].own => {tx[t].own, tx[t].header} \subseteq overlap
    BY <2>1 DEF HeaderOwnOrConcurrent, Writers
  <2> HIDE DEF new
  <2> QED BY <2>1, <2>3, <2>4, QuietStep
<1>8. CASE Commit(t)
  <2>1. CASE tx[t].own # Null
    BY <1>8, <2>1, CommitStep
  <2>2. CASE tx[t].own = Null
    <3>1. /\ likes' = likes /\ committed' = committed /\ UNCHANGED <<board, log, overlap>>
          /\ tx' = [tx EXCEPT ![t] = Idle]
      BY <1>8, <2>2 DEF Commit, Visible, Writers
    <3> QED BY <3>1, QuietStep DEF Idle, TxStates, Null
  <2> QED BY <2>1, <2>2
<1>9. CASE Rejected(t) \/ Fails(t)
  <2>1. tx' = [tx EXCEPT ![t] = Idle] /\ UNCHANGED <<board, likes, log, committed, overlap>>
    BY <1>9 DEF Rejected, Fails, RollBack
  <2> QED BY <2>1, QuietStep DEF Idle, TxStates, Null
<1> QED BY <1>2, <1>3, <1>4, <1>5, <1>6, <1>7, <1>8, <1>9 DEF Step

LEMMA LikesInit == LikesAssumption => (Init => LikesInv)
  BY FS_EmptySet DEF Init, LikesInv, TypeOK, WriterInv, HeaderOwnOrConcurrent, LastInv,
     LikesMatchLog, Idle, TxStates, Null, Writers, Events

LEMMA LikesStep == LikesAssumption /\ LikesInv /\ [Next]_vars => LikesInv'
<1> SUFFICES ASSUME LikesAssumption, LikesInv, [Next]_vars
             PROVE  LikesInv'
  OBVIOUS
<1>1. CASE UNCHANGED vars
  <2>1. UNCHANGED <<board, likes, log, committed, tx, overlap>>
    BY <1>1 DEF vars
  <2>2. TypeOK'
    BY <2>1 DEF LikesInv, TypeOK
  <2>3. ASSUME NEW t \in Tabs, tx'[t].own # Null
        PROVE  OwnRow(t)' /\ Later(t)' /\ Counted(t)'
    <3>1. OwnRow(t) /\ Later(t) /\ Counted(t)
      BY <2>1, <2>3 DEF LikesInv, WriterInv
    <3>2. OwnRow(t)' /\ Later(t)'
      BY <2>1, <3>1 DEF OwnRow, Later, Row
    <3>3. Visible(t)' = Visible(t)
      BY <2>1 DEF Visible, Row, Writers
    <3> QED BY <2>1, <3>1, <3>2, <3>3 DEF Counted
  <2>4. HeaderOwnOrConcurrent'
    BY <2>1 DEF LikesInv, HeaderOwnOrConcurrent, Writers
  <2>5. LastInv' /\ LikesMatchLog'
    BY <2>1 DEF LikesInv, LastInv, IsLastTold, LikesMatchLog, Events
  <2> QED BY <2>2, <2>3, <2>4, <2>5 DEF LikesInv, WriterInv
<1> QED BY <1>1, TabStep, DeleteStep DEF Next

\* The inductive invariant holds in every reachable state.
THEOREM LikesInvariant == Spec => []LikesInv
<1> USE LikesAssumption
<1> QED BY LikesInit, LikesStep, PTL DEF Spec

\* However the tabs of a user toggle a card at the same time, its likes are what
\* its events add up to.
THEOREM LikesAreTold == Spec => []LikesMatchLog
<1>1. LikesInv => LikesMatchLog
  BY DEF LikesInv
<1> QED BY <1>1, LikesInvariant, PTL

\* The count that the browsers settle on is right, unless toggles overlapped.
THEOREM CountsToldAlone == Spec => []CountToldAlone
<1>1. LikesInv => CountToldAlone
  BY DEF LikesInv, LastInv, CountToldAlone
<1> QED BY <1>1, LikesInvariant, PTL

\* A response names its own event, unless a concurrent toggle of the card was newer.
THEOREM HeadersOwnOrConcurrent == Spec => []HeaderOwnOrConcurrent
<1>1. LikesInv => HeaderOwnOrConcurrent
  BY DEF LikesInv
<1> QED BY <1>1, LikesInvariant, PTL

=============================================================================
