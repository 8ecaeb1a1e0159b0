---------------------------- MODULE OrderedFeed ----------------------------
(***************************************************************************)
(* What the live feed of a retro board promises to a browser, without any  *)
(* of the machinery that carries it: a log of committed events to which    *)
(* transactions add in no particular order, and per client the page it     *)
(* last rendered and the feed of events it received since.                 *)
(*                                                                         *)
(* While its retro exists a client is only ever handed committed events of *)
(* its own retro, each newer than everything its page or its feed already  *)
(* shows.  The promise is about order, not about completeness: the real    *)
(* system may skip events, and EventStream says which ones.                *)
(***************************************************************************)
EXTENDS Integers, Sequences

CONSTANTS Clients, Retros, Board

VARIABLES
    log,     \* set of [id, retro]: the events committed so far
    gone,    \* the retros that have been deleted
    base,    \* base[c]: ids of the events the page of c was rendered from
    feed     \* feed[c]: ids received since then, in the order of receipt

feedVars == <<log, gone, base, feed>>

LoggedEvent == [id : Nat \ {0}, retro : Retros]

IdsOf(r) == {m.id : m \in {n \in log : n.retro = r}}

\* Everything the browser of c already shows or has applied.
Seen(c) == base[c] \cup {feed[c][i] : i \in DOMAIN feed[c]}

FeedInit ==
    /\ log = {}
    /\ gone = {}
    /\ base = [c \in Clients |-> {}]
    /\ feed = [c \in Clients |-> << >>]

Record ==
    /\ log \subseteq log'
    /\ \A m \in log' : m \in LoggedEvent
    /\ UNCHANGED <<gone, base, feed>>

Remove(r) ==
    /\ gone' = gone \cup {r}
    /\ UNCHANGED <<log, base, feed>>

Render(c) ==
    /\ Board[c] \notin gone
    /\ base' = [base EXCEPT ![c] = IdsOf(Board[c])]
    /\ feed' = [feed EXCEPT ![c] = << >>]
    /\ UNCHANGED <<log, gone>>

Deliver(c, e) ==
    /\ Board[c] \notin gone => \A x \in Seen(c) : x < e
    /\ feed' = [feed EXCEPT ![c] = Append(@, e)]
    /\ UNCHANGED <<log, gone, base>>

FeedNext ==
    \/ Record
    \/ \E r \in Retros : Remove(r)
    \/ \E c \in Clients : Render(c)
    \/ \E c \in Clients : \E e \in IdsOf(Board[c]) : Deliver(c, e)

FeedSpec == FeedInit /\ [][FeedNext]_feedVars

=============================================================================
