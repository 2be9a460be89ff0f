--------------------------- MODULE NetTcp_proofs ---------------------------
(***************************************************************************)
(* What is proved of TcpCSFramework's server and client in Net.tla, each   *)
(* twice: for callbacks that do not overlap, and on threads.  In a         *)
(* behaviour of Net.tla one component moves, so each has an inductive      *)
(* invariant of its own, and a theorem lifts it to the composition, for    *)
(* any number of clients, sockets and sessions.                            *)
(***************************************************************************)
EXTENDS Net, FiniteSetTheorems, SequenceTheorems, TLAPS

-----------------------------------------------------------------------------
(* TcpSvr on any threads (TcpSvr.tla).  The invariant is SvtIInv: what     *)
(* holds of one client's session, and what the accept callback has in hand.*)

SvtClient(c) ==
  /\ c \in table => svr_sock[c] = "open"
  /\ recv[c] \/ worker[c] # SvrThreads!Idle => svr_sock[c] \in {"open", "closed"}
  /\ recv[c] => worker[c] = SvrThreads!Idle
  /\ recv[c] /\ svr_sock[c] = "open" => c \in table
  /\ worker[c].at \in {"data", "find", "remove"} => c \in table
  /\ worker[c].at \in {"load", "store", "event", "close"} => c \notin table

SvtLetsIn(c) ==
  c = acceptor.who /\ acceptor.at \in {"load", "store", "recv"}

SvtHeard(c) ==
  c \in table =>
    recv[c] \/ worker[c] # SvrThreads!Idle \/ svr_remote[c] = "failed" \/ SvtLetsIn(c)

SvtRefused(c) ==
  svr_sock[c] = "open" =>
    \/ c \in table \/ worker[c] # SvrThreads!Idle
    \/ c = acceptor.who /\ acceptor.at \in {"full", "add"}
    \/ \E k \in DOMAIN events[c] : events[c][k] = "full"

SvtAccept ==
  /\ acceptor = SvrThreads!Idle \/
     (acceptor.who \in Client /\
      acceptor.at \in {"full", "add", "load", "store", "recv", "event", "again"})
  /\ acceptor.at \in {"full", "add", "load", "store", "recv"} =>
       /\ worker[acceptor.who] = SvrThreads!Idle /\ ~recv[acceptor.who]
       /\ svr_sock[acceptor.who] = "open"
       /\ acceptor.who \in table <=> acceptor.at \notin {"full", "add"}

SvtIInv ==
  /\ SvrThreads!TypeOK /\ closer = SvrThreads!Idle
  /\ svrSock = "none" => table = SvrThreads!NoTable
  /\ SvtAccept
  /\ \A c \in Client : SvtClient(c)
  /\ fault = "no" => \A c \in Client : SvtHeard(c) /\ SvtRefused(c)

LEMMA SvtAssumed ==
  /\ IsFiniteSet(Client) /\ "nobody" \notin Client /\ "app" \notin Client
  /\ Wrap \in Nat \ {0} /\ MaxClient \in 0..(Wrap - 1) /\ MaxSend \in Nat
  /\ SvrThreads!NoTable = {"nobody"} /\ SvrThreads!NoClient = "nobody"
  /\ SvrThreads!App = "app"
  /\ SvrThreads!Idle = [at |-> "idle", who |-> "nobody", reg |-> 0]
  /\ SvrThreads!Idle \in SvrThreads!Thread
BY NetAssumed, SMT DEF NetAssumption, SvrThreads!TcpSvrAssumption, SvrThreads!NoTable, SvrThreads!IsFiniteSet, IsFiniteSet,
   SvrThreads!NoClient, SvrThreads!App, SvrThreads!Idle, SvrThreads!Thread, SvrThreads!Place

LEMMA SvtInit == SvrThreads!Init => SvtIInv
<1> SUFFICES ASSUME SvrThreads!Init PROVE SvtIInv
  OBVIOUS
<1> USE SvtAssumed DEF SvrThreads!Init
<1>1. SvrThreads!TypeOK
  <2>1. <<>> \in Seq({"conn", "close", "full"})
    OBVIOUS
  <2>2. count \in 0..(Wrap - 1) /\ acceptor \in SvrThreads!Thread /\ closer \in SvrThreads!Thread
    OBVIOUS
  <2>3. svr_sends \in [Client -> 0..MaxSend] /\ fault \in {"no", "send", "other"}
    BY SMT
  <2>4. /\ worker \in [Client -> SvrThreads!Thread]
        /\ recv \in [Client -> BOOLEAN]
        /\ events \in [Client -> Seq({"conn", "close", "full"})]
    BY <2>1
  <2> QED
    BY <2>2, <2>3, <2>4 DEF SvrThreads!TypeOK, SvrThreads!How
<1>2. SvtAccept
  BY DEF SvtAccept
<1>3. \A c \in Client : SvtClient(c) /\ SvtHeard(c) /\ SvtRefused(c)
  BY DEF SvtClient, SvtHeard, SvtRefused
<1> QED
  BY <1>1, <1>2, <1>3 DEF SvtIInv

(* A place of the table of places, and what a step of a thread makes of it.*)
LEMMA SvtGoes ==
  ASSUME NEW p \in SvrThreads!Thread, NEW place \in SvrThreads!Place
  PROVE  /\ SvrThreads!Goes(p, place) \in SvrThreads!Thread
         /\ SvrThreads!Goes(p, place).at = place
         /\ SvrThreads!Goes(p, place).who = p.who
         /\ SvrThreads!Goes(p, place).reg = p.reg
         /\ place # "idle" => SvrThreads!Goes(p, place) # SvrThreads!Idle
BY SvtAssumed DEF SvrThreads!Goes, SvrThreads!Thread

LEMMA SvtAcceptsBegin ==
  ASSUME SvtIInv, SvrThreads!AcceptBegin
  PROVE  SvtIInv'
<1> USE SvtAssumed DEF SvrThreads!svrVars
<1>0. SvrThreads!TypeOK /\ SvtAccept /\ fault = "no" /\ acceptor = SvrThreads!Idle
      /\ closer = SvrThreads!Idle
  BY DEF SvtIInv, SvrThreads!AcceptBegin, SvrThreads!MayBegin
<1>1. CASE UNCHANGED <<acceptor, svr_sock>>
  <2>1. UNCHANGED <<svrSock, table, count, recv, svr_sends, worker, closer, events, svr_remote, isRun>>
        /\ accepting' = FALSE /\ fault' \in {"no", "send", "other"}
    BY <1>0, <1>1 DEF SvrThreads!AcceptBegin, SvrThreads!Dies, SvrThreads!TypeOK
  <2>2. SvrThreads!TypeOK'
    BY <1>0, <1>1, <2>1 DEF SvrThreads!TypeOK
  <2>3. SvtAccept' /\ \A c \in Client : SvtClient(c)' /\ SvtHeard(c)' /\ SvtRefused(c)'
    BY <1>0, <1>1, <2>1 DEF SvtIInv, SvtAccept, SvtClient, SvtHeard, SvtRefused, SvtLetsIn
  <2> QED
    BY <2>1, <2>2, <2>3 DEF SvtIInv
<1>2. CASE ~ UNCHANGED <<acceptor, svr_sock>>
  <2>1. PICK d \in Client :
          /\ svr_sock[d] = "backlog" /\ svr_sock' = [svr_sock EXCEPT ![d] = "open"]
          /\ acceptor' = [SvrThreads!Idle EXCEPT !.who = d, !.at =
                             IF count = MaxClient THEN "full" ELSE "add"]
          /\ accepting' = FALSE
          /\ UNCHANGED <<svrSock, table, count, recv, svr_sends, worker, closer, events, svr_remote,
                         fault, isRun>>
    BY <1>2 DEF SvrThreads!AcceptBegin
  <2>2. acceptor' \in SvrThreads!Thread /\ acceptor'.who = d /\ acceptor'.at \in {"full", "add"}
    BY <2>1 DEF SvrThreads!Thread, SvrThreads!Place
  <2>3. svr_sock' \in [Client -> {"none", "backlog", "open", "closed"}]
        /\ \A c \in Client : svr_sock'[c] = IF c = d THEN "open" ELSE svr_sock[c]
    BY <1>0, <2>1 DEF SvrThreads!TypeOK
  <2>4. SvrThreads!TypeOK'
    BY <1>0, <2>1, <2>2, <2>3 DEF SvrThreads!TypeOK
  <2>5. worker[d] = SvrThreads!Idle /\ ~recv[d] /\ d \notin table
    BY <2>1 DEF SvtIInv, SvtClient
  <2>6. SvtAccept'
    BY <2>1, <2>2, <2>3, <2>5 DEF SvtAccept
  <2>7. \A c \in Client : SvtClient(c)'
    BY <2>1, <2>3, <2>5 DEF SvtIInv, SvtClient
  <2>8. \A c \in Client : SvtHeard(c)' /\ SvtRefused(c)'
    BY <1>0, <2>1, <2>2, <2>3, <2>5 DEF SvtIInv, SvtHeard, SvtRefused, SvtLetsIn
  <2> QED
    BY <1>0, <2>1, <2>4, <2>6, <2>7, <2>8 DEF SvtIInv
<1> QED
  BY <1>1, <1>2

SvtFull(c) == \E k \in DOMAIN events[c] : events[c][k] = "full"

LEMMA SvtAppended ==
  ASSUME SvrThreads!TypeOK, NEW d \in Client, NEW e \in {"conn", "close", "full"},
         events' = [events EXCEPT ![d] = Append(@, e)]
  PROVE  /\ events' \in [Client -> Seq({"conn", "close", "full"})]
         /\ \A c \in Client : SvtFull(c) => SvtFull(c)'
         /\ e = "full" => SvtFull(d)'
<1>1. /\ events' \in [Client -> Seq({"conn", "close", "full"})]
      /\ events'[d] = Append(events[d], e)
      /\ \A c \in Client \ {d} : events'[c] = events[c]
  BY DEF SvrThreads!TypeOK
<1>2. /\ events[d] \in Seq({"conn", "close", "full"}) /\ Len(events[d]) \in Nat
      /\ DOMAIN events[d] = 1..Len(events[d])
  BY DEF SvrThreads!TypeOK
<1>3. /\ DOMAIN events'[d] = 1..(Len(events[d]) + 1) /\ events'[d][Len(events[d]) + 1] = e
      /\ \A k \in 1..Len(events[d]) : events'[d][k] = events[d][k]
  BY <1>1, <1>2
<1>4. \A k \in 1..Len(events[d]) : k \in 1..(Len(events[d]) + 1)
  BY <1>2
<1>5. Len(events[d]) + 1 \in 1..(Len(events[d]) + 1)
  BY <1>2
<1> QED
  BY <1>1, <1>2, <1>3, <1>4, <1>5 DEF SvtFull

(* The accept callback goes on, and nobody else is concerned.              *)
LEMMA SvtAcceptorMoves ==
  ASSUME SvtIInv, fault = "no", acceptor # SvrThreads!Idle,
         acceptor' \in SvrThreads!Thread, acceptor'.who = acceptor.who,
         <<acceptor.at, acceptor'.at>> \in
           {<<"full", "again">>, <<"load", "store">>, <<"store", "recv">>, <<"event", "again">>},
         UNCHANGED <<svrSock, table, recv, svr_sends, worker, closer, svr_remote, svr_sock, fault, isRun,
                     accepting>>,
         count' \in 0..(Wrap - 1),
         events' \in [Client -> Seq({"conn", "close", "full"})],
         \A c \in Client : SvtFull(c) => SvtFull(c)',
         \A c \in Client : acceptor.at = "full" /\ c = acceptor.who => SvtFull(c)'
  PROVE  SvtIInv'
<1> USE SvtAssumed
<1>0. SvrThreads!TypeOK /\ SvtAccept /\ closer = SvrThreads!Idle /\ acceptor.who \in Client
  BY DEF SvtIInv, SvtAccept
<1>1. SvrThreads!TypeOK'
  BY <1>0 DEF SvrThreads!TypeOK
<1>2. SvtAccept'
  BY <1>0 DEF SvtAccept
<1>3. \A c \in Client : SvtClient(c)'
  BY DEF SvtIInv, SvtClient
<1>4. ASSUME NEW c \in Client PROVE SvtHeard(c)' /\ SvtRefused(c)'
  <2>1. SvtHeard(c) /\ SvtRefused(c)
    BY DEF SvtIInv
  <2>2. SvtRefused(c)'
    BY <2>1 DEF SvtRefused, SvtFull
  <2>3. SvtHeard(c)'
    <3>1. CASE c = acceptor.who /\ acceptor.at = "store"
      BY <2>1, <3>1 DEF SvtHeard, SvtLetsIn
    <3>2. CASE c # acceptor.who \/ acceptor.at # "store"
      BY <2>1, <3>2 DEF SvtHeard, SvtLetsIn
    <3> QED
      BY <3>1, <3>2
  <2> QED
    BY <2>2, <2>3
<1> QED
  BY <1>0, <1>1, <1>2, <1>3, <1>4 DEF SvtIInv

LEMMA SvtAccepts ==
  ASSUME SvtIInv, SvrThreads!Accept
  PROVE  SvtIInv'
<1> USE SvtAssumed DEF SvrThreads!svrVars, SvrThreads!sockVars
<1>0. /\ SvrThreads!TypeOK /\ SvtAccept /\ acceptor \in SvrThreads!Thread
      /\ closer = SvrThreads!Idle /\ count \in 0..(Wrap - 1)
      /\ events \in [Client -> Seq({"conn", "close", "full"})]
  BY DEF SvtIInv, SvrThreads!TypeOK
<1>1. {"load", "store", "recv", "event", "again", "idle"} \subseteq SvrThreads!Place
  BY DEF SvrThreads!Place
<1>9. ASSUME NEW place \in {"load", "store", "recv", "event", "again"}
      PROVE  LET p == SvrThreads!Goes(acceptor, place) IN
             /\ p \in SvrThreads!Thread /\ p.at = place /\ p.who = acceptor.who
             /\ p # SvrThreads!Idle
  <2>1. place \in SvrThreads!Place /\ place # "idle"
    BY <1>1
  <2> QED
    BY <1>0, <2>1, SvtGoes
<1>2. CASE SvrThreads!AcceptBegin
  BY <1>2, SvtAcceptsBegin
<1>3. CASE SvrThreads!AcceptFull \/ SvrThreads!AcceptEvent
  <2>1. /\ fault = "no" /\ acceptor # SvrThreads!Idle /\ acceptor.who \in Client
        /\ acceptor.at \in {"full", "event"} /\ acceptor' = SvrThreads!Goes(acceptor, "again")
    BY <1>0, <1>3 DEF SvrThreads!AcceptFull, SvrThreads!AcceptEvent, SvtAccept
  <2>2. PICK d \in Client : d = acceptor.who
    BY <2>1
  <2>3. PICK e \in {"conn", "close", "full"} :
          /\ events' = [events EXCEPT ![d] = Append(@, e)]
          /\ acceptor.at = "full" => e = "full"
    BY <1>3, <2>2 DEF SvrThreads!AcceptFull, SvrThreads!AcceptEvent
  <2>4. /\ acceptor' \in SvrThreads!Thread /\ acceptor'.at = "again"
        /\ acceptor'.who = acceptor.who
    BY <1>9, <2>1
  <2>5. UNCHANGED <<svrSock, table, count, recv, svr_sends, worker, closer, svr_remote, svr_sock, fault,
                    isRun, accepting>>
    BY <1>3 DEF SvrThreads!AcceptFull, SvrThreads!AcceptEvent
  <2>6. /\ events' \in [Client -> Seq({"conn", "close", "full"})]
        /\ \A c \in Client : SvtFull(c) => SvtFull(c)'
        /\ e = "full" => SvtFull(d)'
    BY <1>0, <2>3, SvtAppended
  <2> QED
    BY <1>0, <2>1, <2>2, <2>3, <2>4, <2>5, <2>6, SvtAcceptorMoves
<1>4. CASE SvrThreads!AcceptLoad \/ SvrThreads!AcceptStore
  <2>1. /\ fault = "no" /\ acceptor # SvrThreads!Idle
        /\ <<acceptor.at, acceptor'.at>> \in {<<"load", "store">>, <<"store", "recv">>}
        /\ acceptor' \in SvrThreads!Thread /\ acceptor'.who = acceptor.who
    <3>1. CASE SvrThreads!AcceptLoad
      <4>1. /\ fault = "no" /\ acceptor.at = "load"
            /\ acceptor' = [acceptor EXCEPT !.at = "store", !.reg = count]
        BY <3>1 DEF SvrThreads!AcceptLoad
      <4>2. /\ acceptor' \in SvrThreads!Thread /\ acceptor'.at = "store"
            /\ acceptor'.who = acceptor.who
        BY <1>0, <1>1, <4>1 DEF SvrThreads!Thread
      <4> QED
        BY <4>1, <4>2
    <3>2. CASE SvrThreads!AcceptStore
      <4>1. /\ fault = "no" /\ acceptor.at = "store" /\ acceptor' = SvrThreads!Goes(acceptor, "recv")
        BY <3>2 DEF SvrThreads!AcceptStore
      <4> QED
        BY <1>9, <4>1
    <3> QED
      BY <1>4, <3>1, <3>2
  <2>2. UNCHANGED <<svrSock, table, recv, svr_sends, worker, closer, svr_remote, svr_sock, fault, isRun,
                    accepting, events>>
    BY <1>4 DEF SvrThreads!AcceptLoad, SvrThreads!AcceptStore
  <2>3. count' \in 0..(Wrap - 1)
    <3>1. acceptor.reg + 1 \in Nat
      BY <1>0 DEF SvrThreads!Thread
    <3> QED
      BY <1>0, <1>4, <3>1 DEF SvrThreads!AcceptLoad, SvrThreads!AcceptStore
  <2>4. events' \in [Client -> Seq({"conn", "close", "full"})]
        /\ \A c \in Client : SvtFull(c) => SvtFull(c)'
    BY <1>0, <2>2 DEF SvtFull
  <2> QED
    BY <1>0, <2>1, <2>2, <2>3, <2>4, SvtAcceptorMoves
<1>5. CASE SvrThreads!AcceptAdd
  <2>1. /\ fault = "no" /\ acceptor.at = "add" /\ acceptor.who \in Client
        /\ UNCHANGED <<isRun, svrSock, count, accepting, svr_sock, svr_remote, recv, svr_sends, worker,
                       closer, events>>
    BY <1>0, <1>5 DEF SvrThreads!AcceptAdd, SvtAccept
  <2>2. CASE table = SvrThreads!NoTable
    <3>1. fault' = "other" /\ UNCHANGED <<table, acceptor>>
      BY <1>5, <2>2 DEF SvrThreads!AcceptAdd, SvrThreads!Dies
    <3> QED
      BY <1>0, <2>1, <3>1, <1>5, <2>2
         DEF SvtIInv, SvtAccept, SvtClient, SvrThreads!TypeOK, SvrThreads!AcceptAdd, SvrThreads!Dies
  <2>3. CASE table # SvrThreads!NoTable
    <3>1. /\ table' = table \cup {acceptor.who} /\ fault' = fault
          /\ acceptor' \in SvrThreads!Thread /\ acceptor'.at = "load"
          /\ acceptor'.who = acceptor.who /\ acceptor' # SvrThreads!Idle
      <4>1. /\ table' = table \cup {acceptor.who} /\ fault' = fault
            /\ acceptor' = SvrThreads!Goes(acceptor, "load")
        BY <1>5, <2>3 DEF SvrThreads!AcceptAdd
      <4> QED
        BY <1>9, <4>1
    <3>2. SvrThreads!TypeOK'
      BY <1>0, <2>1, <2>3, <3>1 DEF SvrThreads!TypeOK
    <3>3. SvtAccept' /\ (svrSock = "none" => table = SvrThreads!NoTable)
      BY <1>0, <2>1, <3>1 DEF SvtIInv, SvtAccept
    <3>4. \A c \in Client : SvtClient(c)'
      BY <1>0, <2>1, <3>1 DEF SvtIInv, SvtAccept, SvtClient
    <3>5. \A c \in Client : SvtHeard(c)' /\ SvtRefused(c)'
      BY <1>0, <2>1, <3>1 DEF SvtIInv, SvtHeard, SvtRefused, SvtLetsIn
    <3> QED
      BY <1>0, <2>1, <2>3, <3>1, <3>2, <3>3, <3>4, <3>5 DEF SvtIInv
  <2> QED
    BY <2>2, <2>3
<1>6. CASE SvrThreads!AcceptReceive
  <2>1. /\ fault = "no" /\ acceptor.at = "recv" /\ acceptor.who \in Client
        /\ UNCHANGED <<isRun, svrSock, table, count, accepting, svr_sock, svr_remote, svr_sends,
                       worker, closer, events>>
    BY <1>0, <1>6 DEF SvrThreads!AcceptReceive, SvtAccept
  <2>2. svr_sock[acceptor.who] = "open" /\ acceptor.who \in table
    BY <1>0, <2>1 DEF SvtAccept
  <2>3. /\ recv' = [recv EXCEPT ![acceptor.who] = TRUE] /\ fault' = fault
        /\ acceptor' \in SvrThreads!Thread /\ acceptor'.at = "event"
        /\ acceptor'.who = acceptor.who /\ acceptor' # SvrThreads!Idle
    <3>1. /\ recv' = [recv EXCEPT ![acceptor.who] = TRUE] /\ fault' = fault
          /\ acceptor' = SvrThreads!Goes(acceptor, "event")
      BY <1>6, <2>2 DEF SvrThreads!AcceptReceive
    <3> QED
      BY <1>9, <3>1
  <2>4. recv' \in [Client -> BOOLEAN]
        /\ \A c \in Client : recv'[c] = IF c = acceptor.who THEN TRUE ELSE recv[c]
    BY <1>0, <2>3 DEF SvrThreads!TypeOK
  <2>5. SvrThreads!TypeOK'
    BY <1>0, <2>1, <2>3, <2>4 DEF SvrThreads!TypeOK
  <2>6. SvtAccept'
    BY <1>0, <2>1, <2>3 DEF SvtAccept
  <2>7. \A c \in Client : SvtClient(c)'
    <3> SUFFICES ASSUME NEW c \in Client PROVE SvtClient(c)'
      OBVIOUS
    <3>1. worker[acceptor.who] = SvrThreads!Idle
      BY <1>0, <2>1 DEF SvtAccept
    <3>2. CASE c = acceptor.who
      BY <2>1, <2>2, <2>4, <3>1, <3>2 DEF SvtIInv, SvtClient
    <3>3. CASE c # acceptor.who
      BY <2>1, <2>4, <3>3 DEF SvtIInv, SvtClient
    <3> QED
      BY <3>2, <3>3
  <2>8. \A c \in Client : SvtHeard(c)' /\ SvtRefused(c)'
    BY <1>0, <2>1, <2>3, <2>4 DEF SvtIInv, SvtHeard, SvtRefused, SvtLetsIn
  <2> QED
    BY <1>0, <2>1, <2>5, <2>6, <2>7, <2>8 DEF SvtIInv
<1>7. CASE SvrThreads!AcceptAgain
  <2>1. /\ acceptor.at = "again" /\ fault = "no"
        /\ UNCHANGED <<isRun, svrSock, table, count, svr_sock, svr_remote, recv, svr_sends, worker,
                       closer, events>>
        /\ acceptor' \in {acceptor, SvrThreads!Idle} /\ accepting' \in BOOLEAN /\ fault' \in {"no", "send", "other"}
    BY <1>0, <1>7 DEF SvrThreads!AcceptAgain, SvrThreads!Dies, SvrThreads!TypeOK
  <2>2. SvrThreads!TypeOK'
    BY <1>0, <2>1 DEF SvrThreads!TypeOK
  <2>3. SvtAccept' /\ \A c \in Client : SvtClient(c)'
    BY <1>0, <2>1 DEF SvtIInv, SvtAccept, SvtClient
  <2>4. \A c \in Client : SvtHeard(c)' /\ SvtRefused(c)'
    BY <2>1 DEF SvtIInv, SvtHeard, SvtRefused, SvtLetsIn
  <2> QED
    BY <1>0, <2>1, <2>2, <2>3, <2>4 DEF SvtIInv
<1> QED
  BY <1>2, <1>3, <1>4, <1>5, <1>6, <1>7 DEF SvrThreads!Accept

-----------------------------------------------------------------------------
(* The receive callback of one client goes on: what it has to keep.        *)
LEMMA SvtWorkerMoves ==
  ASSUME SvtIInv, NEW d \in Client,
         UNCHANGED <<svrSock, acceptor, closer, isRun, accepting, svr_remote, svr_sends>>,
         worker' \in [Client -> SvrThreads!Thread], recv' \in [Client -> BOOLEAN],
         svr_sock' \in [Client -> {"none", "backlog", "open", "closed"}],
         count' \in 0..(Wrap - 1), fault' \in {"no", "send", "other"}, fault = "no",
         events' \in [Client -> Seq({"conn", "close", "full"})],
         table' = table \/ (table # SvrThreads!NoTable /\ table' = table \ {d}),
         \A c \in Client \ {d} :
           worker'[c] = worker[c] /\ recv'[c] = recv[c] /\ svr_sock'[c] = svr_sock[c],
         \A c \in Client : SvtFull(c) => SvtFull(c)',
         recv[d] \/ worker[d] # SvrThreads!Idle,
         SvtClient(d)', fault' = "no" => SvtHeard(d)' /\ SvtRefused(d)'
  PROVE  SvtIInv'
<1> USE SvtAssumed
<1>0. SvrThreads!TypeOK /\ SvtAccept /\ closer = SvrThreads!Idle
  BY DEF SvtIInv
<1>1. d \notin table' \/ table' = table
  OBVIOUS
<1>2. SvrThreads!TypeOK'
  BY <1>0 DEF SvrThreads!TypeOK
<1>3. SvtAccept'
  <2>1. acceptor.at \in {"full", "add", "load", "store", "recv"} => acceptor.who \in Client \ {d}
    BY <1>0 DEF SvtAccept
  <2> QED
    BY <1>0, <2>1 DEF SvtAccept
<1>4. ASSUME NEW c \in Client PROVE SvtClient(c)'
  <2>1. SvtClient(c)
    BY DEF SvtIInv
  <2>2. CASE c # d
    <3>1. worker'[c] = worker[c] /\ recv'[c] = recv[c] /\ svr_sock'[c] = svr_sock[c]
          /\ (c \in table' <=> c \in table)
      BY <2>2
    <3> QED
      BY ONLY <2>1, <3>1 DEF SvtClient
  <2> QED
    BY <2>2
<1>5. ASSUME NEW c \in Client, fault' = "no", c # d PROVE SvtHeard(c)' /\ SvtRefused(c)'
  <2>1. SvtHeard(c) /\ SvtRefused(c)
    BY DEF SvtIInv
  <2>2. worker'[c] = worker[c] /\ recv'[c] = recv[c] /\ svr_sock'[c] = svr_sock[c]
        /\ (c \in table' <=> c \in table) /\ svr_remote' = svr_remote /\ acceptor' = acceptor
    BY <1>5
  <2>3. SvtFull(c) => SvtFull(c)'
    OBVIOUS
  <2> QED
    BY ONLY <2>1, <2>2, <2>3 DEF SvtHeard, SvtRefused, SvtLetsIn, SvtFull
<1>6. svrSock = "none" => table = SvrThreads!NoTable
  BY DEF SvtIInv
<1> QED
  BY <1>0, <1>2, <1>3, <1>4, <1>5, <1>6 DEF SvtIInv

LEMMA SvtReceives ==
  ASSUME SvtIInv, NEW d \in Client, SvrThreads!Receive(d)
  PROVE  SvtIInv'
<1> USE SvtAssumed DEF SvrThreads!svrVars, SvrThreads!sockVars
<1>0. /\ SvrThreads!TypeOK /\ SvtAccept /\ SvtClient(d) /\ worker[d] \in SvrThreads!Thread
      /\ worker \in [Client -> SvrThreads!Thread] /\ recv \in [Client -> BOOLEAN]
      /\ svr_sock \in [Client -> {"none", "backlog", "open", "closed"}]
      /\ svr_remote[d] \in {"open", "shut", "reset", "failed"}
      /\ events \in [Client -> Seq({"conn", "close", "full"})]
      /\ count \in 0..(Wrap - 1) /\ fault \in {"no", "send", "other"}
  BY DEF SvtIInv, SvrThreads!TypeOK, SvrThreads!How
<1>1. {"load", "store", "remove", "event", "close", "data", "find", "idle"} \subseteq SvrThreads!Place
  BY DEF SvrThreads!Place
<1>2. ASSUME NEW place \in {"load", "store", "remove", "event", "close"}
      PROVE  LET p == SvrThreads!Goes(worker[d], place) IN
             /\ p \in SvrThreads!Thread /\ p.at = place /\ p # SvrThreads!Idle
  <2>1. place \in SvrThreads!Place /\ place # "idle"
    BY <1>1
  <2> QED
    BY <1>0, <2>1, SvtGoes
<1>3. \A p \in SvrThreads!Thread : worker' = [worker EXCEPT ![d] = p] =>
        /\ worker' \in [Client -> SvrThreads!Thread] /\ worker'[d] = p
        /\ \A c \in Client \ {d} : worker'[c] = worker[c]
  BY <1>0
<1>4. events' = events => /\ events' \in [Client -> Seq({"conn", "close", "full"})]
                          /\ \A c \in Client : SvtFull(c) => SvtFull(c)'
  BY <1>0 DEF SvtFull
<1>5. fault = "no" => SvtHeard(d) /\ SvtRefused(d)
  BY DEF SvtIInv
<1>6. CASE SvrThreads!ReceiveBegin(d)
  <2>1. /\ fault = "no" /\ recv[d] /\ worker[d] = SvrThreads!Idle
        /\ recv' = [recv EXCEPT ![d] = FALSE]
        /\ UNCHANGED <<isRun, svrSock, table, count, accepting, acceptor, svr_sock, svr_remote,
                       svr_sends, closer, events, fault>>
    BY <1>6 DEF SvrThreads!ReceiveBegin, SvrThreads!MayBegin
  <2>2. PICK p \in SvrThreads!Thread :
          /\ worker' = [worker EXCEPT ![d] = p]
          /\ \/ p = SvrThreads!Idle /\ (svr_sock[d] = "closed" \/ svr_remote[d] = "failed")
             \/ p # SvrThreads!Idle /\ svr_sock[d] # "closed" /\ p.at \in {"data", "find"}
    <3>1. [SvrThreads!Idle EXCEPT !.at = "data"] \in SvrThreads!Thread
          /\ [SvrThreads!Idle EXCEPT !.at = "find"] \in SvrThreads!Thread
      BY <1>1 DEF SvrThreads!Thread
    <3>2. CASE svr_sock[d] = "closed" \/ svr_remote[d] = "failed"
      <4>1. worker' = [worker EXCEPT ![d] = SvrThreads!Idle]
        BY <1>6, <3>2 DEF SvrThreads!ReceiveBegin, SvrThreads!WorkerMoves
      <4> QED
        BY <3>2, <4>1
    <3>3. CASE ~(svr_sock[d] = "closed" \/ svr_remote[d] = "failed")
      <4>1. worker' = [worker EXCEPT ![d] = [SvrThreads!Idle EXCEPT !.at =
                         IF svr_remote[d] = "open" THEN "data" ELSE "find"]]
        BY <1>6, <3>3 DEF SvrThreads!ReceiveBegin, SvrThreads!WorkerMoves
      <4> QED
        BY <3>1, <3>3, <4>1
    <3> QED
      BY <3>2, <3>3
  <2>3. worker'[d] = p /\ recv'[d] = FALSE /\ recv' \in [Client -> BOOLEAN]
        /\ \A c \in Client \ {d} : recv'[c] = recv[c]
    BY <1>0, <1>3, <2>1, <2>2
  <2>4. SvtClient(d)'
    BY <1>0, <2>1, <2>2, <2>3 DEF SvtClient
  <2>5. SvtHeard(d)' /\ SvtRefused(d)'
    BY <1>0, <1>5, <2>1, <2>2, <2>3 DEF SvtHeard, SvtRefused, SvtLetsIn, SvtClient, SvtAccept
  <2> QED
    BY <1>0, <1>3, <1>4, <2>1, <2>2, <2>3, <2>4, <2>5, SvtWorkerMoves
<1>7. CASE SvrThreads!ReceiveAgain(d)
  <2>1. /\ fault = "no" /\ worker[d].at = "data" /\ worker[d] # SvrThreads!Idle
        /\ recv' = [recv EXCEPT ![d] = (svr_sock[d] # "closed")]
        /\ worker' = [worker EXCEPT ![d] = SvrThreads!Idle]
        /\ UNCHANGED <<isRun, svrSock, table, count, accepting, acceptor, svr_sock, svr_remote,
                       svr_sends, closer, events, fault>>
    BY <1>7 DEF SvrThreads!ReceiveAgain, SvrThreads!WorkerMoves
  <2>2. d \in table /\ svr_sock[d] = "open"
    BY <1>0, <2>1 DEF SvtClient
  <2>3. worker'[d] = SvrThreads!Idle /\ recv'[d] = TRUE /\ recv' \in [Client -> BOOLEAN]
        /\ \A c \in Client \ {d} : recv'[c] = recv[c]
    BY <1>0, <1>3, <2>1, <2>2
  <2>4. SvtClient(d)' /\ SvtHeard(d)' /\ SvtRefused(d)'
    BY <2>1, <2>2, <2>3 DEF SvtClient, SvtHeard, SvtRefused
  <2> QED
    BY <1>0, <1>3, <1>4, <2>1, <2>3, <2>4, SvtWorkerMoves
<1>10. CASE SvrThreads!ReceiveThrows(d)
  <2>1. /\ fault = "no" /\ worker[d].at = "data" /\ worker[d] # SvrThreads!Idle
        /\ svr_remote[d] \in {"reset", "failed"}
        /\ UNCHANGED <<isRun, svrSock, table, count, accepting, acceptor, svr_sock, svr_remote,
                       recv, svr_sends, closer, events, fault>>
    BY <1>10 DEF SvrThreads!ReceiveThrows
  <2>2. PICK p \in SvrThreads!Thread :
          /\ worker' = [worker EXCEPT ![d] = p]
          /\ \/ p = SvrThreads!Idle /\ svr_remote[d] = "failed"
             \/ p # SvrThreads!Idle /\ p.at = "find"
    <3>1. CASE svr_remote[d] = "reset"
      <4>1. worker' = [worker EXCEPT ![d] = SvrThreads!Goes(worker[d], "find")]
        BY <1>10, <3>1 DEF SvrThreads!ReceiveThrows, SvrThreads!WorkerMoves
      <4>2. "find" \in SvrThreads!Place /\ "find" # "idle"
        BY <1>1
      <4>3. /\ SvrThreads!Goes(worker[d], "find") \in SvrThreads!Thread
            /\ SvrThreads!Goes(worker[d], "find").at = "find"
            /\ SvrThreads!Goes(worker[d], "find") # SvrThreads!Idle
        BY <1>0, <4>2, SvtGoes
      <4> QED
        BY <4>1, <4>3
    <3>2. CASE svr_remote[d] = "failed"
      <4>1. worker' = [worker EXCEPT ![d] = SvrThreads!Idle]
        BY <1>10, <3>2 DEF SvrThreads!ReceiveThrows, SvrThreads!WorkerMoves
      <4> QED
        BY <3>2, <4>1
    <3> QED
      BY <2>1, <3>1, <3>2
  <2>3. worker'[d] = p
    BY <1>3, <2>2
  <2>4. SvtClient(d)'
    BY <1>0, <2>1, <2>2, <2>3 DEF SvtClient
  <2>5. d \in table
    BY <1>0, <2>1 DEF SvtClient
  <2>6. SvtHeard(d)' /\ SvtRefused(d)'
    BY <1>5, <2>1, <2>2, <2>3, <2>5 DEF SvtHeard, SvtRefused
  <2> QED
    BY <1>0, <1>3, <1>4, <2>1, <2>2, <2>4, <2>6, SvtWorkerMoves
<1>8. CASE SvrThreads!CloseClient(d)
  <2>1. /\ fault = "no" /\ worker[d].at = "find" /\ worker[d] # SvrThreads!Idle
        /\ UNCHANGED <<isRun, svrSock, table, count, accepting, acceptor, svr_sock, svr_remote,
                       recv, svr_sends, closer, events>>
    BY <1>8 DEF SvrThreads!CloseClient
  <2>2. d \in table /\ table # SvrThreads!NoTable
    BY <1>0, <2>1 DEF SvtClient
  <2>3. worker' = [worker EXCEPT ![d] = SvrThreads!Goes(worker[d], "remove")] /\ fault' = fault
    BY <1>8, <2>2 DEF SvrThreads!CloseClient, SvrThreads!WorkerMoves
  <2>4. worker'[d].at = "remove" /\ worker'[d] # SvrThreads!Idle
        /\ worker' \in [Client -> SvrThreads!Thread]
        /\ \A c \in Client \ {d} : worker'[c] = worker[c]
    BY <1>2, <1>3, <2>3
  <2>5. SvtClient(d)' /\ SvtHeard(d)' /\ SvtRefused(d)'
    BY <1>0, <2>1, <2>2, <2>4 DEF SvtClient, SvtHeard, SvtRefused
  <2> QED
    BY <1>0, <1>4, <2>1, <2>3, <2>4, <2>5, SvtWorkerMoves
<1>9. CASE SvrThreads!WorkerCloses(d)
  <2>1. /\ fault = "no" /\ SvrThreads!CloseSession(d, d, svr_remote[d] = "shut")
        /\ UNCHANGED <<isRun, svrSock, accepting, acceptor, svr_remote, recv, svr_sends>>
    BY <1>9 DEF SvrThreads!WorkerCloses
  <2>2. /\ SvrThreads!Proc(d) = worker[d]
        /\ \A p : SvrThreads!Moves(d, p) <=>
                    worker' = [worker EXCEPT ![d] = p] /\ closer' = closer
    BY DEF SvrThreads!Proc, SvrThreads!Moves
  <2>3. CASE SvrThreads!CloseRemove(d, d)
    <3>1. worker[d].at = "remove" /\ worker[d] # SvrThreads!Idle
          /\ UNCHANGED <<count, svr_sock, events>>
      BY <2>2, <2>3 DEF SvrThreads!CloseRemove
    <3>2. d \in table /\ table # SvrThreads!NoTable /\ svr_sock[d] = "open"
      BY <1>0, <3>1 DEF SvtClient
    <3>3. /\ table' = table \ {d} /\ fault' = fault /\ closer' = closer
          /\ worker' = [worker EXCEPT ![d] = SvrThreads!Goes(worker[d], "load")]
      BY <2>2, <2>3, <3>2 DEF SvrThreads!CloseRemove
    <3>4. worker'[d].at = "load" /\ worker'[d] # SvrThreads!Idle
          /\ worker' \in [Client -> SvrThreads!Thread]
          /\ \A c \in Client \ {d} : worker'[c] = worker[c]
      BY <1>2, <1>3, <3>3
    <3>5. SvtClient(d)' /\ SvtHeard(d)' /\ SvtRefused(d)'
      BY <1>0, <2>1, <3>1, <3>2, <3>3, <3>4 DEF SvtClient, SvtHeard, SvtRefused
    <3> QED
      BY <1>0, <1>4, <2>1, <3>1, <3>2, <3>3, <3>4, <3>5, SvtWorkerMoves
  <2>4. CASE SvrThreads!CloseLoad(d) \/ SvrThreads!CloseStore(d) \/ SvrThreads!CloseEvent(d, d)
    <3>1. worker[d].at \in {"load", "store", "event"} /\ worker[d] # SvrThreads!Idle
          /\ UNCHANGED <<table, svr_sock, fault>>
      BY <2>2, <2>4 DEF SvrThreads!CloseLoad, SvrThreads!CloseStore, SvrThreads!CloseEvent
    <3>2. PICK p \in SvrThreads!Thread :
            /\ worker' = [worker EXCEPT ![d] = p] /\ closer' = closer
            /\ p.at \in {"store", "event", "close"} /\ p # SvrThreads!Idle
      <4>1. CASE SvrThreads!CloseLoad(d)
        <5> DEFINE p == [worker[d] EXCEPT !.at = "store", !.reg = count]
        <5>1. p \in SvrThreads!Thread /\ p.at = "store" /\ p # SvrThreads!Idle
          BY <1>0, <1>1 DEF SvrThreads!Thread
        <5>2. worker' = [worker EXCEPT ![d] = p] /\ closer' = closer
          BY <2>2, <4>1 DEF SvrThreads!CloseLoad
        <5> HIDE DEF p
        <5> QED
          BY <5>1, <5>2
      <4>2. CASE SvrThreads!CloseStore(d)
        BY <1>2, <2>2, <4>2 DEF SvrThreads!CloseStore
      <4>3. CASE SvrThreads!CloseEvent(d, d)
        BY <1>2, <2>2, <4>3 DEF SvrThreads!CloseEvent
      <4> QED
        BY <2>4, <4>1, <4>2, <4>3
    <3>3. count' \in 0..(Wrap - 1)
      <4>1. CASE SvrThreads!CloseStore(d)
        <5>1. worker[d].reg \in Nat /\ count' = (worker[d].reg + Wrap - 1) % Wrap
          BY <1>0, <2>2, <4>1 DEF SvrThreads!CloseStore, SvrThreads!Less, SvrThreads!Thread
        <5>2. worker[d].reg + Wrap - 1 \in Nat
          BY <5>1
        <5> QED
          BY <5>1, <5>2
      <4>2. CASE SvrThreads!CloseLoad(d) \/ SvrThreads!CloseEvent(d, d)
        BY <1>0, <4>2 DEF SvrThreads!CloseLoad, SvrThreads!CloseEvent
      <4> QED
        BY <2>4, <4>1, <4>2
    <3>4. /\ events' \in [Client -> Seq({"conn", "close", "full"})]
          /\ \A c \in Client : SvtFull(c) => SvtFull(c)'
      <4>1. CASE events' = events
        BY <1>4, <4>1
      <4>2. CASE events' = [events EXCEPT ![d] = Append(@, "close")]
        BY <1>0, <4>2, SvtAppended
      <4> QED
        BY <2>4, <4>1, <4>2 DEF SvrThreads!CloseLoad, SvrThreads!CloseStore, SvrThreads!CloseEvent
    <3>5. SvtClient(d)'
      BY <1>0, <1>3, <2>1, <3>1, <3>2 DEF SvtClient
    <3>6. SvtHeard(d)' /\ SvtRefused(d)'
      BY <1>0, <1>3, <2>1, <3>1, <3>2 DEF SvtHeard, SvtRefused
    <3> QED
      BY <1>0, <1>3, <2>1, <3>1, <3>2, <3>3, <3>4, <3>5, <3>6, SvtWorkerMoves
  <2>5. CASE SvrThreads!CloseSocket(d, d, svr_remote[d] = "shut")
    <3>1. /\ worker[d].at = "close" /\ worker[d] # SvrThreads!Idle
          /\ worker' = [worker EXCEPT ![d] = SvrThreads!Idle] /\ closer' = closer
          /\ svr_sock' = [svr_sock EXCEPT ![d] = "closed"] /\ fault' \in {"no", "send", "other"}
          /\ UNCHANGED <<table, count, events>>
      <4>1. worker[d].at = "close" /\ worker[d] # SvrThreads!Idle
        BY <2>2, <2>5 DEF SvrThreads!CloseSocket
      <4>2. worker' = [worker EXCEPT ![d] = SvrThreads!Idle] /\ closer' = closer
        BY <2>2, <2>5 DEF SvrThreads!CloseSocket
      <4>3. fault' \in {"no", "send", "other"}
        BY <1>0, <2>5 DEF SvrThreads!CloseSocket, SvrThreads!Dies
      <4>4. svr_sock' = [svr_sock EXCEPT ![d] = "closed"] /\ UNCHANGED <<table, count, events>>
        BY <2>5 DEF SvrThreads!CloseSocket
      <4> QED
        BY <4>1, <4>2, <4>3, <4>4
    <3>2. /\ svr_sock' \in [Client -> {"none", "backlog", "open", "closed"}]
          /\ svr_sock'[d] = "closed"
          /\ \A c \in Client \ {d} : svr_sock'[c] = svr_sock[c]
      BY <1>0, <3>1
    <3>3. worker'[d] = SvrThreads!Idle /\ worker' \in [Client -> SvrThreads!Thread]
          /\ \A c \in Client \ {d} : worker'[c] = worker[c]
      BY <1>3, <3>1
    <3>4. SvtClient(d)' /\ SvtHeard(d)' /\ SvtRefused(d)'
      BY <1>0, <2>1, <3>1, <3>2, <3>3 DEF SvtClient, SvtHeard, SvtRefused
    <3> QED
      BY <1>0, <1>4, <2>1, <3>1, <3>2, <3>3, <3>4, SvtWorkerMoves
  <2> QED
    BY <2>1, <2>3, <2>4, <2>5 DEF SvrThreads!CloseSession
<1> QED
  BY <1>6, <1>7, <1>8, <1>9, <1>10 DEF SvrThreads!Receive

LEMMA SvtEnds ==
  ASSUME SvtIInv, NEW d \in Client,
         \/ SvrThreads!Connects(d)
         \/ \E how \in SvrThreads!How : SvrThreads!Ends(d, how)
  PROVE  SvtIInv'
<1> USE SvtAssumed DEF SvrThreads!svrVars
<1>0. /\ SvrThreads!TypeOK /\ SvtAccept /\ SvtClient(d) /\ closer = SvrThreads!Idle
      /\ svr_remote \in [Client -> {"open"} \cup SvrThreads!How]
      /\ svr_sock \in [Client -> {"none", "backlog", "open", "closed"}]
  BY DEF SvtIInv, SvrThreads!TypeOK
<1>1. /\ UNCHANGED <<SvrThreads!svrVars, accepting, acceptor, recv, svr_sends, worker, closer, events, fault>>
      /\ \/ svr_sock[d] = "none" /\ svr_sock' = [svr_sock EXCEPT ![d] = "backlog"]
            /\ svr_remote' = svr_remote
         \/ \E how \in SvrThreads!How :
              svr_sock[d] = "open" /\ svr_remote[d] = "open" /\ svr_sock' = svr_sock
                /\ svr_remote' = [svr_remote EXCEPT ![d] = how]
  BY DEF SvrThreads!Connects, SvrThreads!Ends
<1>2. /\ svr_sock' \in [Client -> {"none", "backlog", "open", "closed"}]
      /\ svr_remote' \in [Client -> {"open"} \cup SvrThreads!How]
      /\ \A c \in Client : svr_sock'[c] = svr_sock[c]
                           \/ (c = d /\ svr_sock[c] = "none" /\ svr_sock'[c] = "backlog")
      /\ \A c \in Client : svr_remote[c] = "failed" => svr_remote'[c] = "failed"
  BY <1>0, <1>1
<1>3. SvrThreads!TypeOK'
  BY <1>0, <1>1, <1>2 DEF SvrThreads!TypeOK
<1>4. SvtAccept'
  BY <1>0, <1>1, <1>2 DEF SvtAccept
<1>5. ASSUME NEW c \in Client PROVE SvtClient(c)'
  <2>1. SvtClient(c)
    BY DEF SvtIInv
  <2> QED
    BY <1>1, <1>2, <2>1 DEF SvtClient
<1>6. ASSUME NEW c \in Client, fault' = "no" PROVE SvtHeard(c)' /\ SvtRefused(c)'
  <2>1. SvtHeard(c) /\ SvtRefused(c)
    BY <1>1, <1>6 DEF SvtIInv
  <2> QED
    BY <1>1, <1>2, <2>1 DEF SvtHeard, SvtRefused, SvtLetsIn
<1> QED
  BY <1>0, <1>1, <1>3, <1>4, <1>5, <1>6 DEF SvtIInv

LEMMA SvtStarts ==
  ASSUME SvtIInv, SvrThreads!Start
  PROVE  SvtIInv'
<1> USE SvtAssumed DEF SvrThreads!sockVars
<1>0. /\ SvrThreads!TypeOK /\ SvtAccept /\ closer = SvrThreads!Idle
      /\ \A c \in Client : c \notin table
      /\ svrSock' = "open" /\ table' = {} /\ isRun' = TRUE /\ accepting' = TRUE
      /\ UNCHANGED <<count, acceptor, svr_sock, svr_remote, recv, svr_sends, worker, closer, events, fault>>
  BY DEF SvtIInv, SvrThreads!Start
<1>1. SvrThreads!TypeOK'
  BY <1>0 DEF SvrThreads!TypeOK
<1>2. SvtAccept'
  BY <1>0 DEF SvtAccept
<1>3. ASSUME NEW c \in Client PROVE SvtClient(c)' /\ (fault = "no" => SvtHeard(c)' /\ SvtRefused(c)')
  <2>1. SvtClient(c) /\ (fault = "no" => SvtHeard(c) /\ SvtRefused(c))
    BY DEF SvtIInv
  <2> QED
    BY <1>0, <2>1 DEF SvtClient, SvtHeard, SvtRefused
<1> QED
  BY <1>0, <1>1, <1>2, <1>3 DEF SvtIInv

(* A send is begun, or its callback runs, and may die.                     *)
LEMMA SvtSends ==
  ASSUME SvtIInv, NEW d \in Client, SvrThreads!Send(d) \/ SvrThreads!SendDataEnd(d)
  PROVE  SvtIInv'
<1> USE SvtAssumed DEF SvrThreads!svrVars
<1>0. /\ SvrThreads!TypeOK /\ MaxSend \in Nat
      /\ svr_sends \in [Client -> 0..MaxSend] /\ svr_sends[d] \in 0..MaxSend
  BY DEF SvtIInv, SvrThreads!TypeOK
<1>1. /\ fault = "no" /\ fault' \in {"no", "send"}
      /\ UNCHANGED <<isRun, svrSock, table, count, accepting, acceptor, svr_sock, svr_remote,
                     recv, worker, closer, events>>
      /\ \/ svr_sends[d] < MaxSend /\ svr_sends' = [svr_sends EXCEPT ![d] = @ + 1]
         \/ svr_sends[d] > 0 /\ svr_sends' = [svr_sends EXCEPT ![d] = @ - 1]
  BY DEF SvrThreads!Send, SvrThreads!SendDataEnd, SvrThreads!MayBegin
<1>2. svr_sends' \in [Client -> 0..MaxSend]
  <2>1. CASE svr_sends[d] < MaxSend /\ svr_sends' = [svr_sends EXCEPT ![d] = @ + 1]
    <3>1. svr_sends[d] + 1 \in 0..MaxSend
      BY <1>0, <2>1
    <3> QED
      BY <1>0, <2>1, <3>1
  <2>2. CASE svr_sends[d] > 0 /\ svr_sends' = [svr_sends EXCEPT ![d] = @ - 1]
    <3>1. svr_sends[d] - 1 \in 0..MaxSend
      BY <1>0, <2>2
    <3> QED
      BY <1>0, <2>2, <3>1
  <2> QED
    BY <1>1, <2>1, <2>2
<1>3. SvrThreads!TypeOK'
  BY <1>0, <1>1, <1>2 DEF SvrThreads!TypeOK
<1>4. SvtAccept' /\ \A c \in Client : SvtClient(c)' /\ SvtHeard(c)' /\ SvtRefused(c)'
  BY <1>1 DEF SvtIInv, SvtAccept, SvtClient, SvtHeard, SvtRefused, SvtLetsIn
<1> QED
  BY <1>1, <1>3, <1>4 DEF SvtIInv

LEMMA SvtStep == SvtIInv /\ [SvrThreads!Next]_svr => SvtIInv'
<1> SUFFICES ASSUME SvtIInv, [SvrThreads!Next]_svr PROVE SvtIInv'
  OBVIOUS
<1>0. closer = SvrThreads!Idle
  BY DEF SvtIInv
<1>1. ~ SvrThreads!Stop
  BY <1>0, SvtAssumed
     DEF SvrThreads!Stop, SvrThreads!StopBegin, SvrThreads!StopCloses, SvrThreads!StopZero,
         SvrThreads!StopClears, SvrThreads!StopEnds
<1>2. ASSUME NEW c \in Client PROVE ~ SvrThreads!AppBegin(c) /\ ~ SvrThreads!AppCloses(c)
  BY <1>0, SvtAssumed DEF SvrThreads!AppBegin, SvrThreads!AppCloses
<1>3. CASE SvrThreads!Next
  BY <1>1, <1>2, <1>3, SvtStarts, SvtAccepts, SvtReceives, SvtEnds, SvtSends
     DEF SvrThreads!Next
<1>4. CASE UNCHANGED svr
  <2> USE DEF svr
  <2>1. SvrThreads!TypeOK'
    BY <1>4 DEF SvtIInv, SvrThreads!TypeOK
  <2>2. SvtAccept' /\ \A c \in Client : SvtClient(c)'
    BY <1>4 DEF SvtIInv, SvtAccept, SvtClient
  <2>3. fault' = "no" => \A c \in Client : SvtHeard(c)' /\ SvtRefused(c)'
    BY <1>4 DEF SvtIInv, SvtHeard, SvtRefused, SvtLetsIn
  <2> QED
    BY <1>4, <2>1, <2>2, <2>3 DEF SvtIInv
<1> QED
  BY <1>3, <1>4

LEMMA SvtIsRight ==
  SvtIInv =>
    SvrThreads!TypeOK /\ SvrThreads!SessionsAreHeard /\ SvrThreads!OrphansWereRefused
<1> SUFFICES ASSUME SvtIInv
             PROVE  SvrThreads!TypeOK /\ SvrThreads!SessionsAreHeard /\ SvrThreads!OrphansWereRefused
  OBVIOUS
<1>1. SvrThreads!SessionsAreHeard
  <2> SUFFICES ASSUME fault = "no", table # SvrThreads!NoTable, NEW c \in table
               PROVE  \/ recv[c] \/ worker[c] # SvrThreads!Idle \/ svr_remote[c] = "failed"
                      \/ c \in {acceptor.who, closer.who} \/ closer.at \in {"zero", "clear"}
    BY DEF SvrThreads!SessionsAreHeard
  <2>1. c \in Client
    BY DEF SvtIInv, SvrThreads!TypeOK
  <2> QED
    BY <2>1 DEF SvtIInv, SvtHeard, SvtLetsIn
<1>2. SvrThreads!OrphansWereRefused
  <2> SUFFICES ASSUME fault = "no", NEW c \in Client, svr_sock[c] = "open"
               PROVE  \/ (table # SvrThreads!NoTable /\ c \in table)
                      \/ worker[c] # SvrThreads!Idle \/ c \in {acceptor.who, closer.who}
                      \/ \E k \in DOMAIN events[c] : events[c][k] = "full"
    BY DEF SvrThreads!OrphansWereRefused
  <2>1. c \in table => table # SvrThreads!NoTable
    BY SvtAssumed
  <2> QED
    BY <2>1 DEF SvtIInv, SvtRefused
<1> QED
  BY <1>1, <1>2 DEF SvtIInv

-----------------------------------------------------------------------------
(* TcpSvr when calls and callbacks do not overlap (TcpSvr.tla).  The       *)
(* invariant is SvsIInv: at most one of the accept callback, the receive   *)
(* callbacks and the application is at work, on one client, whose state    *)
(* and the counter's are those of its place; every other client is settled.*)
(* Or the callback of a send has died, and nobody goes on.                 *)

SvsSession(c) == c \in table /\ svr_sock[c] = "open" /\ events[c] = <<"conn">>
SvsRefused(c) ==
  c \notin table /\ svr_sock[c] = "open" /\ events[c] = <<"full">> /\ ~recv[c]
SvsOutside(c) ==
  c \notin table /\ svr_sock[c] \in {"none", "backlog"} /\ events[c] = <<>> /\ ~recv[c]
SvsGone(c) ==
  /\ c \notin table /\ svr_sock[c] = "closed"
  /\ \/ events[c] = <<"conn", "close">>
     \/ ~isRun /\ events[c] = <<"conn">>
SvsSettled(c) == SvsSession(c) \/ SvsRefused(c) \/ SvsOutside(c) \/ SvsGone(c)
SvsOthers(c) == \A d \in Client : d # c => SvsSettled(d)

SvsTable == table \subseteq Client /\ Svr!Cardinality(table) <= MaxClient
SvsOpen == isRun /\ svrSock = "open" /\ SvsTable
SvsCounted == count = Svr!Cardinality(table)
SvsWorkersIdle == \A d \in Client : worker[d] = Svr!Idle

(* Where the accept callback is with a client it lets in or refuses. *)
SvsNew(c) == svr_sock[c] = "open" /\ events[c] = <<>>
SvsAcceptPhase(c) ==
  \/ acceptor.at = "full" /\ SvsNew(c) /\ c \notin table /\ ~recv[c] /\ SvsCounted
  \/ acceptor.at = "add" /\ SvsNew(c) /\ c \notin table /\ ~recv[c] /\ SvsCounted
     /\ count < MaxClient
  \/ acceptor.at = "load" /\ SvsNew(c) /\ c \in table /\ ~recv[c]
     /\ Svr!Cardinality(table) = count + 1
  \/ acceptor.at = "store" /\ SvsNew(c) /\ c \in table /\ ~recv[c]
     /\ Svr!Cardinality(table) = count + 1 /\ acceptor.reg = count
  \/ acceptor.at = "recv" /\ SvsNew(c) /\ c \in table /\ ~recv[c] /\ SvsCounted
  \/ acceptor.at = "event" /\ SvsNew(c) /\ c \in table /\ SvsCounted
  \/ acceptor.at = "again" /\ (SvsSession(c) \/ SvsRefused(c)) /\ SvsCounted

(* Where a thread is that closes a session. *)
SvsLeft(c) == c \notin table /\ svr_sock[c] = "open"
SvsClosePhase(p, c) ==
  \/ p.at = "remove" /\ SvsSession(c) /\ SvsCounted
  \/ p.at = "load" /\ SvsLeft(c) /\ events[c] = <<"conn">>
     /\ count = Svr!Cardinality(table) + 1
  \/ p.at = "store" /\ SvsLeft(c) /\ events[c] = <<"conn">>
     /\ count = Svr!Cardinality(table) + 1 /\ p.reg = count
  \/ p.at = "event" /\ SvsLeft(c) /\ events[c] = <<"conn">> /\ SvsCounted
  \/ p.at = "close" /\ SvsLeft(c) /\ events[c] = <<"conn", "close">> /\ SvsCounted

SvsRest ==
  /\ acceptor = Svr!Idle /\ closer = Svr!Idle /\ SvsWorkersIdle
  /\ \A d \in Client : SvsSettled(d)
  /\ \/ SvsOpen /\ SvsCounted
     \/ /\ ~isRun /\ table = Svr!NoTable /\ svrSock \in {"none", "closed"}
        /\ svrSock = "none" => count = 0 /\ ~accepting
                                /\ \A d \in Client : svr_sock[d] = "none"

SvsAccepts(c) ==
  /\ closer = Svr!Idle /\ SvsWorkersIdle /\ SvsOpen /\ SvsOthers(c)
  /\ acceptor.who = c /\ SvsAcceptPhase(c)

SvsWorks(c) ==
  /\ acceptor = Svr!Idle /\ closer = Svr!Idle /\ SvsOpen /\ SvsOthers(c)
  /\ \A d \in Client : d # c => worker[d] = Svr!Idle
  /\ ~recv[c]
  /\ \/ worker[c].at \in {"data", "find"} /\ SvsSession(c) /\ SvsCounted
     \/ SvsClosePhase(worker[c], c)

SvsCloses(c) ==
  /\ acceptor = Svr!Idle /\ SvsWorkersIdle /\ SvsOpen /\ SvsOthers(c)
  /\ closer.who = c /\ SvsClosePhase(closer, c)

(* Stop has closed the sessions. *)
SvsStopped(d) ==
  \/ svr_sock[d] = "closed" /\ events[d] = <<"conn">>
  \/ SvsRefused(d) \/ SvsOutside(d) \/ SvsGone(d)

SvsStops ==
  /\ acceptor = Svr!Idle /\ SvsWorkersIdle /\ closer.who = Svr!App
  /\ ~isRun /\ svrSock = "open" /\ SvsTable
  /\ \/ closer.at = "closeall" /\ \A d \in Client : SvsSettled(d)
     \/ closer.at \in {"zero", "clear"} /\ \A d \in Client : SvsStopped(d)
     \/ closer.at = "server" /\ table = {} /\ \A d \in Client : SvsStopped(d)

SvsAlive ==
  /\ Svr!TypeOK /\ fault = "no"
  /\ \/ SvsRest \/ SvsStops
     \/ \E c \in Client : SvsAccepts(c) \/ SvsWorks(c) \/ SvsCloses(c)

(* The callback of a send has died: only the clients' ends still move.     *)
SvsDead ==
  /\ Svr!TypeOK /\ fault = "send" /\ \E c \in Client : Svr!EndSendThrows(c)
  /\ Svr!CountIsTheTable /\ Svr!AtMostMaxClient /\ Svr!ConnBeforeClose

SvsIInv == SvsAlive \/ SvsDead

LEMMA SvsAssumed ==
  /\ IsFiniteSet(Client) /\ "nobody" \notin Client /\ "app" \notin Client
  /\ Wrap \in Nat \ {0} /\ MaxClient \in 0..(Wrap - 1) /\ MaxSend \in Nat
  /\ Svr!NoTable = {"nobody"} /\ Svr!NoClient = "nobody" /\ Svr!App = "app"
  /\ Svr!Idle = [at |-> "idle", who |-> "nobody", reg |-> 0]
  /\ Svr!Idle \in Svr!Thread
BY NetAssumed, SMT DEF NetAssumption, Svr!TcpSvrAssumption, Svr!NoTable, Svr!IsFiniteSet,
   IsFiniteSet, Svr!NoClient, Svr!App, Svr!Idle, Svr!Thread, Svr!Place

LEMMA SvsCardinality == \A S : Svr!Cardinality(S) = Cardinality(S)
BY DEF Svr!Cardinality, Cardinality

(* The size of the table when a session comes and when one goes. *)
LEMMA SvsTableSize ==
  ASSUME table \subseteq Client, NEW c \in Client
  PROVE  /\ Svr!Cardinality(table) \in Nat
         /\ c \notin table => Svr!Cardinality(table \cup {c}) = Svr!Cardinality(table) + 1
         /\ c \in table => Svr!Cardinality(table) = Svr!Cardinality(table \ {c}) + 1
         /\ Svr!Cardinality(table \ {c}) \in Nat
         /\ Svr!Cardinality({}) = 0
<1>1. IsFiniteSet(table) /\ IsFiniteSet(table \ {c})
  BY SvsAssumed, FS_Subset
<1>2. Cardinality(table) \in Nat /\ Cardinality(table \ {c}) \in Nat
  BY <1>1, FS_CardinalityType
<1>3. c \notin table => Cardinality(table \cup {c}) = Cardinality(table) + 1
  BY <1>1, FS_AddElement
<1>4. c \in table => Cardinality(table \ {c}) = Cardinality(table) - 1
  BY <1>1, FS_RemoveElement
<1> QED
  BY <1>1, <1>2, <1>3, <1>4, FS_EmptySet, SvsCardinality

LEMMA SvsInit == Svr!Init => SvsIInv
<1> SUFFICES ASSUME Svr!Init PROVE SvsIInv
  OBVIOUS
<1> USE SvsAssumed DEF Svr!Init
<1>1. Svr!TypeOK
  <2>1. <<>> \in Seq({"conn", "close", "full"})
    OBVIOUS
  <2>2. count \in 0..(Wrap - 1) /\ acceptor \in Svr!Thread /\ closer \in Svr!Thread
    OBVIOUS
  <2>3. svr_sends \in [Client -> 0..MaxSend] /\ fault \in {"no", "send", "other"}
    BY SMT
  <2>4. /\ worker \in [Client -> Svr!Thread]
        /\ recv \in [Client -> BOOLEAN]
        /\ events \in [Client -> Seq({"conn", "close", "full"})]
    BY <2>1
  <2> QED
    BY <2>2, <2>3, <2>4 DEF Svr!TypeOK, Svr!How
<1>2. SvsRest
  BY DEF SvsRest, SvsWorkersIdle, SvsSettled, SvsOutside
<1> QED
  BY <1>1, <1>2 DEF SvsIInv, SvsAlive

LEMMA SvsGoes ==
  ASSUME NEW p \in Svr!Thread, NEW place \in Svr!Place
  PROVE  /\ Svr!Goes(p, place) \in Svr!Thread
         /\ Svr!Goes(p, place).at = place
         /\ Svr!Goes(p, place).who = p.who
         /\ Svr!Goes(p, place).reg = p.reg
         /\ place # "idle" => Svr!Goes(p, place) # Svr!Idle
BY SvsAssumed DEF Svr!Goes, Svr!Thread

LEMMA ModSmall == ASSUME NEW w \in Nat \ {0}, NEW k \in 0..(w - 1) PROVE k % w = k
OBVIOUS

LEMMA ModWrap == ASSUME NEW w \in Nat \ {0}, NEW k \in 0..(w - 1) PROVE (k + w) % w = k
OBVIOUS

LEMMA SvsConnClose == Append(<<"conn">>, "close") = <<"conn", "close">>
<1> DEFINE s == Append(<<"conn">>, "close")
           t == <<"conn", "close">>
<1>1. s \in Seq({"conn", "close"}) /\ Len(s) = 2 /\ s[1] = "conn" /\ s[2] = "close"
  OBVIOUS
<1>2. t \in Seq({"conn", "close"}) /\ Len(t) = 2 /\ t[1] = "conn" /\ t[2] = "close"
  OBVIOUS
<1> HIDE DEF s, t
<1>3. \A i \in 1..2 : s[i] = t[i]
  BY <1>1, <1>2
<1>4. s = t
  BY <1>1, <1>2, <1>3, SeqEqual
<1> QED
  BY <1>4 DEF s, t

(* With nobody at work, the table and the counter are at rest. *)
LEMMA SvsQuiet ==
  ASSUME SvsAlive, Svr!MayBegin
  PROVE  SvsRest
<1> USE SvsAssumed
<1>1. acceptor = Svr!Idle /\ closer = Svr!Idle /\ \A c \in Client : worker[c] = Svr!Idle
  BY DEF Svr!MayBegin, Svr!Quiet
<1>2. ~ SvsStops
  BY <1>1 DEF SvsStops
<1>3. ASSUME NEW c \in Client PROVE ~ SvsAccepts(c) /\ ~ SvsCloses(c)
  BY <1>1 DEF SvsAccepts, SvsCloses
<1>4. ASSUME NEW c \in Client PROVE ~ SvsWorks(c)
  BY <1>1 DEF SvsWorks, SvsClosePhase
<1> QED
  BY <1>2, <1>3, <1>4 DEF SvsAlive

(* The clients that a step does not touch stay settled. *)
LEMMA SvsFrame ==
  ASSUME NEW c \in Client, SvsOthers(c), isRun' = isRun,
         \A d \in Client : d # c =>
           /\ svr_sock'[d] = svr_sock[d] /\ events'[d] = events[d] /\ recv'[d] = recv[d]
           /\ (d \in table' <=> d \in table)
  PROVE  SvsOthers(c)'
BY DEF SvsOthers, SvsSettled, SvsSession, SvsRefused, SvsOutside, SvsGone

(* A step of CloseSession, whoever runs it. *)
(* What a step of CloseSession leaves, by a process that was at p.         *)
SvsClosed(t, c, p) ==
  /\ fault' = "no" /\ SvsOpen' /\ SvsOthers(c)' /\ count' \in 0..(Wrap - 1)
  /\ events' \in [Client -> Seq({"conn", "close", "full"})]
  /\ svr_sock' \in [Client -> {"none", "backlog", "open", "closed"}]
  /\ \E q \in Svr!Thread :
       /\ Svr!Moves(t, q)
       /\ \/ q = Svr!Idle /\ SvsGone(c)' /\ SvsCounted'
          \/ q.who = p.who /\ SvsClosePhase(q, c)'

LEMMA SvsCloseStep ==
  ASSUME Svr!TypeOK, fault = "no", NEW c \in Client, NEW t, NEW caught \in BOOLEAN,
         NEW p \in Svr!Thread, Svr!Proc(t) = p, SvsOpen, SvsOthers(c), SvsClosePhase(p, c),
         Svr!CloseSession(t, c, caught), UNCHANGED <<isRun, svrSock, recv, svr_sends>>
  PROVE  SvsClosed(t, c, p)
<1> USE SvsAssumed DEF SvsClosed
<1>0. /\ table \subseteq Client /\ Svr!Cardinality(table) \in Nat
      /\ count \in 0..(Wrap - 1) /\ fault = "no" /\ isRun
      /\ events \in [Client -> Seq({"conn", "close", "full"})]
      /\ svr_sock \in [Client -> {"none", "backlog", "open", "closed"}]
  BY SvsTableSize DEF Svr!TypeOK, SvsOpen, SvsTable
<1>1. ASSUME NEW place \in {"load", "event", "close"}
      PROVE  /\ Svr!Goes(p, place) \in Svr!Thread /\ Svr!Goes(p, place).at = place
             /\ Svr!Goes(p, place).who = p.who /\ Svr!Goes(p, place).reg = p.reg
  <2>1. place \in Svr!Place
    BY DEF Svr!Place
  <2> QED
    BY <2>1, SvsGoes
<1>2. CASE Svr!CloseRemove(t, c)
  <2>1. p.at = "remove" /\ UNCHANGED <<count, svr_sock, events>>
    BY <1>2 DEF Svr!CloseRemove
  <2>2. SvsSession(c) /\ SvsCounted /\ c \in table /\ table # Svr!NoTable
    BY <1>0, <2>1 DEF SvsClosePhase, SvsSession
  <2>3. table' = table \ {c} /\ Svr!Moves(t, Svr!Goes(p, "load")) /\ fault' = fault
    BY <1>2, <2>2 DEF Svr!CloseRemove
  <2>4. Svr!Cardinality(table) = Svr!Cardinality(table') + 1 /\ Svr!Cardinality(table') \in Nat
    BY <1>0, <2>2, <2>3, SvsTableSize
  <2>5. SvsOpen'
    BY <1>0, <2>3, <2>4 DEF SvsOpen, SvsTable
  <2>6. SvsOthers(c)'
    BY <2>1, <2>3, SvsFrame
  <2>7. SvsClosePhase(Svr!Goes(p, "load"), c)'
    BY <1>1, <2>1, <2>2, <2>3, <2>4 DEF SvsClosePhase, SvsLeft, SvsSession, SvsCounted
  <2> QED
    BY <1>0, <1>1, <2>1, <2>3, <2>5, <2>6, <2>7
<1>3. CASE Svr!CloseLoad(t)
  <2>1. /\ p.at = "load" /\ UNCHANGED <<table, count, svr_sock, events, fault>>
        /\ Svr!Moves(t, [p EXCEPT !.at = "store", !.reg = count])
    BY <1>3 DEF Svr!CloseLoad
  <2> DEFINE q == [p EXCEPT !.at = "store", !.reg = count]
  <2>2. PICK r \in Svr!Thread : r = q
    BY <1>0 DEF Svr!Thread, Svr!Place
  <2>3. r.at = "store" /\ r.reg = count /\ r.who = p.who /\ Svr!Moves(t, r)
    BY <2>1, <2>2 DEF Svr!Thread
  <2>4. SvsClosePhase(r, c)'
    BY <2>1, <2>3 DEF SvsClosePhase, SvsLeft, SvsCounted
  <2>5. SvsOthers(c)' /\ SvsOpen'
    BY <2>1, SvsFrame DEF SvsOpen, SvsTable
  <2> QED
    BY <1>0, <2>1, <2>3, <2>4, <2>5
<1>4. CASE Svr!CloseStore(t)
  <2>1. /\ p.at = "store" /\ UNCHANGED <<table, svr_sock, events, fault>>
        /\ count' = Svr!Less(p.reg) /\ Svr!Moves(t, Svr!Goes(p, "event"))
    BY <1>4 DEF Svr!CloseStore
  <2>2. SvsLeft(c) /\ events[c] = <<"conn">> /\ count = Svr!Cardinality(table) + 1 /\ p.reg = count
    BY <2>1 DEF SvsClosePhase
  <2>3. count' = Svr!Cardinality(table)
    <3>1. Svr!Cardinality(table) \in 0..(Wrap - 1)
      BY <1>0, <2>2
    <3>2. count' = (Svr!Cardinality(table) + Wrap) % Wrap
      BY <1>0, <2>1, <2>2 DEF Svr!Less
    <3> QED
      BY <3>1, <3>2, ModWrap
  <2>4. SvsClosePhase(Svr!Goes(p, "event"), c)'
    BY <1>1, <2>1, <2>2, <2>3 DEF SvsClosePhase, SvsLeft, SvsCounted
  <2>5. SvsOthers(c)' /\ SvsOpen'
    BY <2>1, SvsFrame DEF SvsOpen, SvsTable
  <2>6. count' \in 0..(Wrap - 1)
    BY <1>0, <2>2, <2>3
  <2> QED
    BY <1>0, <1>1, <2>1, <2>4, <2>5, <2>6
<1>5. CASE Svr!CloseEvent(t, c)
  <2>1. /\ p.at = "event" /\ UNCHANGED <<table, count, svr_sock, fault>>
        /\ events' = [events EXCEPT ![c] = Append(@, "close")] /\ Svr!Moves(t, Svr!Goes(p, "close"))
    BY <1>5 DEF Svr!CloseEvent
  <2>2. SvsLeft(c) /\ events[c] = <<"conn">> /\ SvsCounted
    BY <2>1 DEF SvsClosePhase
  <2>3. /\ events' \in [Client -> Seq({"conn", "close", "full"})]
        /\ events'[c] = <<"conn", "close">>
        /\ \A d \in Client : d # c => events'[d] = events[d]
    <3>1. <<"conn", "close">> \in Seq({"conn", "close", "full"})
      OBVIOUS
    <3>2. events' = [events EXCEPT ![c] = <<"conn", "close">>]
      BY <2>1, <2>2, SvsConnClose
    <3> QED
      BY <1>0, <3>1, <3>2
  <2>4. SvsClosePhase(Svr!Goes(p, "close"), c)'
    BY <1>1, <2>1, <2>2, <2>3 DEF SvsClosePhase, SvsLeft, SvsCounted
  <2>5. SvsOthers(c)' /\ SvsOpen'
    BY <2>1, <2>3, SvsFrame DEF SvsOpen, SvsTable
  <2> QED
    BY <1>0, <1>1, <2>1, <2>3, <2>4, <2>5
<1>6. CASE Svr!CloseSocket(t, c, caught)
  <2>1. /\ p.at = "close" /\ UNCHANGED <<table, count, events>>
        /\ svr_sock' = [svr_sock EXCEPT ![c] = "closed"] /\ Svr!Moves(t, Svr!Idle)
    BY <1>6 DEF Svr!CloseSocket
  <2>2. SvsLeft(c) /\ events[c] = <<"conn", "close">> /\ SvsCounted
    BY <2>1 DEF SvsClosePhase
  <2>3. fault' = fault
    BY <1>6, <2>2 DEF Svr!CloseSocket, SvsLeft
  <2>4. /\ svr_sock' \in [Client -> {"none", "backlog", "open", "closed"}]
        /\ svr_sock'[c] = "closed" /\ \A d \in Client : d # c => svr_sock'[d] = svr_sock[d]
    BY <1>0, <2>1
  <2>5. SvsGone(c)' /\ SvsCounted'
    BY <2>1, <2>2, <2>4 DEF SvsGone, SvsLeft, SvsCounted
  <2>6. SvsOthers(c)' /\ SvsOpen'
    BY <2>1, <2>4, SvsFrame DEF SvsOpen, SvsTable
  <2> QED
    BY <1>0, <2>1, <2>3, <2>4, <2>5, <2>6
<1> QED
  BY <1>2, <1>3, <1>4, <1>5, <1>6 DEF Svr!CloseSession

-----------------------------------------------------------------------------
LEMMA SvsAcceptsBegin ==
  ASSUME SvsAlive, Svr!AcceptBegin
  PROVE  SvsAlive'
<1> USE SvsAssumed DEF Svr!svrVars
<1>0. Svr!TypeOK /\ fault = "no" /\ acceptor = Svr!Idle /\ accepting
  BY DEF SvsAlive, Svr!AcceptBegin, Svr!MayBegin
<1>1. SvsRest
  BY SvsQuiet DEF Svr!AcceptBegin
<1>2. UNCHANGED <<isRun, svrSock, table, count, recv, svr_sends, worker, closer, events, svr_remote>>
  BY DEF Svr!AcceptBegin
<1>3. CASE svrSock = "closed"
  <2>1. UNCHANGED <<acceptor, svr_sock, fault>> /\ accepting' = FALSE /\ ~isRun
    BY <1>1, <1>3 DEF Svr!AcceptBegin, SvsRest, SvsOpen
  <2>2. Svr!TypeOK'
    BY <1>0, <1>2, <2>1 DEF Svr!TypeOK
  <2>3. SvsRest'
    BY <1>1, <1>2, <1>3, <2>1
       DEF SvsRest, SvsOpen, SvsTable, SvsCounted, SvsWorkersIdle, SvsSettled, SvsSession,
           SvsRefused, SvsOutside, SvsGone
  <2> QED
    BY <1>0, <2>1, <2>2, <2>3 DEF SvsAlive
<1>4. CASE svrSock # "closed"
  <2>1. SvsOpen /\ SvsCounted /\ isRun
    BY <1>0, <1>1, <1>4 DEF SvsRest, SvsOpen
  <2>2. PICK c \in Client :
          /\ svr_sock[c] = "backlog" /\ accepting' = FALSE
          /\ svr_sock' = [svr_sock EXCEPT ![c] = "open"]
          /\ acceptor' = [Svr!Idle EXCEPT !.who = c, !.at =
                             IF count = MaxClient THEN "full" ELSE "add"]
          /\ fault' = fault
    BY <1>4, <2>1 DEF Svr!AcceptBegin
  <2>3. /\ acceptor' \in Svr!Thread /\ acceptor'.who = c
        /\ acceptor'.at = IF count = MaxClient THEN "full" ELSE "add"
    BY <2>2 DEF Svr!Thread, Svr!Place
  <2>4. /\ svr_sock' \in [Client -> {"none", "backlog", "open", "closed"}]
        /\ svr_sock'[c] = "open" /\ \A d \in Client : d # c => svr_sock'[d] = svr_sock[d]
    BY <1>0, <2>2 DEF Svr!TypeOK
  <2>5. Svr!TypeOK'
    BY <1>0, <1>2, <2>2, <2>3, <2>4 DEF Svr!TypeOK
  <2>6. SvsOutside(c)
    BY <1>1, <2>2 DEF SvsRest, SvsSettled, SvsSession, SvsRefused, SvsGone
  <2>7. SvsOthers(c)' /\ SvsOpen' /\ SvsCounted'
    <3>1. SvsOthers(c)
      BY <1>1 DEF SvsRest, SvsOthers
    <3> QED
      BY <1>2, <2>1, <2>4, <3>1, SvsFrame DEF SvsOpen, SvsTable, SvsCounted
  <2>8. SvsAcceptPhase(c)'
    <3>1. SvsNew(c)' /\ (c \notin table)' /\ ~recv'[c]
      BY <1>2, <2>4, <2>6 DEF SvsNew, SvsOutside
    <3>2. count \in Nat /\ count <= MaxClient /\ count' = count
      BY <1>0, <1>2, <2>1 DEF SvsOpen, SvsTable, SvsCounted, Svr!TypeOK
    <3>3. count # MaxClient => count' < MaxClient
      BY <3>2
    <3> QED
      BY <2>3, <2>7, <3>1, <3>3 DEF SvsAcceptPhase
  <2>9. SvsAccepts(c)'
    BY <1>1, <1>2, <2>3, <2>7, <2>8 DEF SvsAccepts, SvsRest, SvsWorkersIdle
  <2> QED
    BY <1>0, <2>2, <2>5, <2>9 DEF SvsAlive
<1> QED
  BY <1>3, <1>4

(* The accept callback at work on its client. *)
LEMMA SvsAcceptsStep ==
  ASSUME SvsAlive, Svr!Accept
  PROVE  SvsAlive'
<1> USE SvsAssumed DEF Svr!svrVars, Svr!sockVars
<1>1. CASE Svr!AcceptBegin
  BY <1>1, SvsAcceptsBegin
<1>2. CASE ~ Svr!AcceptBegin
  <2>0. Svr!TypeOK /\ fault = "no" /\ acceptor \in Svr!Thread /\ acceptor.at # "idle"
        /\ fault \in {"no", "send", "other"}
        /\ events \in [Client -> Seq({"conn", "close", "full"})] /\ count \in 0..(Wrap - 1)
    BY <1>2 DEF SvsAlive, Svr!TypeOK, Svr!Accept, Svr!AcceptFull, Svr!AcceptAdd, Svr!AcceptLoad,
       Svr!AcceptStore, Svr!AcceptReceive, Svr!AcceptEvent, Svr!AcceptAgain
  <2>1. PICK c \in Client : SvsAccepts(c)
    BY <2>0 DEF SvsAlive, SvsRest, SvsStops, SvsWorks, SvsCloses
  <2>2. /\ closer = Svr!Idle /\ SvsWorkersIdle /\ SvsOpen /\ SvsOthers(c) /\ acceptor.who = c
        /\ SvsAcceptPhase(c) /\ table \subseteq Client /\ table # Svr!NoTable
        /\ Svr!Cardinality(table) \in Nat
    BY <2>1, SvsTableSize DEF SvsAccepts, SvsOpen, SvsTable
  <2>3. ASSUME NEW place \in {"load", "store", "recv", "event", "again"}
        PROVE  LET p == Svr!Goes(acceptor, place) IN
               /\ p \in Svr!Thread /\ p.at = place /\ p.who = c /\ p.reg = acceptor.reg
    <3>1. place \in Svr!Place
      BY DEF Svr!Place
    <3> QED
      BY <2>0, <2>2, <3>1, SvsGoes
  <2>4. UNCHANGED <<isRun, svrSock, svr_sock, svr_remote, svr_sends, worker, closer>>
    BY <1>2 DEF Svr!Accept, Svr!AcceptFull, Svr!AcceptAdd, Svr!AcceptLoad, Svr!AcceptStore,
       Svr!AcceptReceive, Svr!AcceptEvent, Svr!AcceptAgain
  <2>5. ASSUME fault' = "no", fault' \in {"no", "send", "other"}, acceptor' \in Svr!Thread, acceptor'.who = c,
               SvsAcceptPhase(c)', SvsTable', accepting' \in BOOLEAN, count' \in 0..(Wrap - 1),
               recv' \in [Client -> BOOLEAN],
               events' \in [Client -> Seq({"conn", "close", "full"})],
               \A d \in Client : d # c =>
                 /\ events'[d] = events[d] /\ recv'[d] = recv[d]
                 /\ (d \in table' <=> d \in table)
        PROVE  SvsAlive'
    <3>1. SvsOthers(c)' /\ SvsOpen' /\ table' \subseteq Client
      BY <2>2, <2>4, <2>5, SvsFrame DEF SvsOpen, SvsTable
    <3>2. Svr!TypeOK'
      BY <2>0, <2>2, <2>4, <2>5, <3>1 DEF Svr!TypeOK
    <3>3. SvsAccepts(c)'
      BY <2>2, <2>4, <2>5, <3>1 DEF SvsAccepts, SvsWorkersIdle
    <3> QED
      BY <2>5, <3>2, <3>3 DEF SvsAlive
  <2>6. /\ SvsTable /\ recv \in [Client -> BOOLEAN] /\ accepting \in BOOLEAN
        /\ svr_sock \in [Client -> {"none", "backlog", "open", "closed"}]
    BY <2>0, <2>2 DEF SvsOpen, Svr!TypeOK
  <2>7. CASE Svr!AcceptFull
    <3>1. /\ acceptor.at = "full" /\ acceptor' = Svr!Goes(acceptor, "again")
          /\ events' = [events EXCEPT ![c] = Append(@, "full")]
          /\ UNCHANGED <<table, count, accepting, recv, svr_sends, fault>>
      BY <2>2, <2>7 DEF Svr!AcceptFull
    <3>2. SvsNew(c) /\ c \notin table /\ ~recv[c] /\ SvsCounted
      BY <2>2, <3>1 DEF SvsAcceptPhase
    <3>3. /\ events' \in [Client -> Seq({"conn", "close", "full"})] /\ events'[c] = <<"full">>
          /\ \A d \in Client : d # c => events'[d] = events[d]
      <4>1. Append(<<>>, "full") = <<"full">> /\ <<"full">> \in Seq({"conn", "close", "full"})
        OBVIOUS
      <4>2. events' = [events EXCEPT ![c] = <<"full">>]
        BY <3>1, <3>2, <4>1 DEF SvsNew
      <4> QED
        BY <2>0, <4>1, <4>2
    <3>4. SvsAcceptPhase(c)'
      BY <2>3, <2>4, <3>1, <3>2, <3>3 DEF SvsAcceptPhase, SvsRefused, SvsNew, SvsCounted
    <3>5. SvsTable'
      BY <2>6, <3>1 DEF SvsTable
    <3> QED
      BY <2>0, <2>3, <2>5, <2>6, <3>1, <3>3, <3>4, <3>5
  <2>8. CASE Svr!AcceptAdd
    <3>1. /\ acceptor.at = "add" /\ acceptor' = Svr!Goes(acceptor, "load")
          /\ table' = table \cup {c} /\ UNCHANGED <<count, accepting, recv, svr_sends, events, fault>>
      BY <2>2, <2>8 DEF Svr!AcceptAdd
    <3>2. SvsNew(c) /\ c \notin table /\ ~recv[c] /\ SvsCounted /\ count < MaxClient
      BY <2>2, <3>1 DEF SvsAcceptPhase
    <3>3. Svr!Cardinality(table') = Svr!Cardinality(table) + 1
      BY <2>2, <3>1, <3>2, SvsTableSize
    <3>4. SvsAcceptPhase(c)'
      BY <2>3, <2>4, <3>1, <3>2, <3>3 DEF SvsAcceptPhase, SvsNew, SvsCounted
    <3>5. SvsTable'
      <4>1. Svr!Cardinality(table') <= MaxClient
        BY <2>0, <2>2, <3>2, <3>3 DEF SvsCounted
      <4> QED
        BY <2>2, <3>1, <4>1 DEF SvsTable
    <3> QED
      BY <2>0, <2>3, <2>5, <2>6, <3>1, <3>4, <3>5
  <2>9. CASE Svr!AcceptLoad
    <3>1. /\ acceptor.at = "load" /\ acceptor' = [acceptor EXCEPT !.at = "store", !.reg = count]
          /\ UNCHANGED <<table, count, accepting, recv, svr_sends, events, fault>>
      BY <2>9 DEF Svr!AcceptLoad
    <3>2. acceptor' \in Svr!Thread /\ acceptor'.at = "store" /\ acceptor'.who = c
          /\ acceptor'.reg = count
      BY <2>0, <2>2, <3>1 DEF Svr!Thread, Svr!Place
    <3>3. SvsAcceptPhase(c)'
      BY <2>2, <2>4, <3>1, <3>2 DEF SvsAcceptPhase, SvsNew
    <3>4. SvsTable'
      BY <2>6, <3>1 DEF SvsTable
    <3> QED
      BY <2>0, <2>5, <2>6, <3>1, <3>2, <3>3, <3>4
  <2>10. CASE Svr!AcceptStore
    <3>1. /\ acceptor.at = "store" /\ acceptor' = Svr!Goes(acceptor, "recv")
          /\ count' = (acceptor.reg + 1) % Wrap
          /\ UNCHANGED <<table, accepting, recv, svr_sends, events, fault>>
      BY <2>10 DEF Svr!AcceptStore
    <3>2. SvsNew(c) /\ c \in table /\ ~recv[c] /\ Svr!Cardinality(table) = count + 1
          /\ acceptor.reg = count
      BY <2>2, <3>1 DEF SvsAcceptPhase
    <3>3. Svr!Cardinality(table) \in 0..(Wrap - 1)
      BY <2>2 DEF SvsOpen, SvsTable
    <3>4. count' = Svr!Cardinality(table)
      BY <3>1, <3>2, <3>3, ModSmall
    <3>5. SvsAcceptPhase(c)'
      BY <2>3, <2>4, <3>1, <3>2, <3>4 DEF SvsAcceptPhase, SvsNew, SvsCounted
    <3>6. SvsTable'
      BY <2>6, <3>1 DEF SvsTable
    <3> QED
      BY <2>0, <2>3, <2>5, <2>6, <3>1, <3>3, <3>4, <3>5, <3>6
  <2>11. CASE Svr!AcceptReceive
    <3>1. acceptor.at = "recv" /\ UNCHANGED <<table, count, accepting, events>>
      BY <2>11 DEF Svr!AcceptReceive
    <3>2. SvsNew(c) /\ c \in table /\ ~recv[c] /\ SvsCounted
      BY <2>2, <3>1 DEF SvsAcceptPhase
    <3>3. /\ acceptor' = Svr!Goes(acceptor, "event") /\ fault' = fault
          /\ recv' = [recv EXCEPT ![c] = TRUE]
      BY <2>2, <2>11, <3>2 DEF Svr!AcceptReceive, SvsNew
    <3>4. recv' \in [Client -> BOOLEAN] /\ \A d \in Client : d # c => recv'[d] = recv[d]
      BY <2>6, <3>3
    <3>5. SvsAcceptPhase(c)'
      BY <2>3, <2>4, <3>1, <3>2, <3>3 DEF SvsAcceptPhase, SvsNew, SvsCounted
    <3>6. SvsTable'
      BY <2>6, <3>1 DEF SvsTable
    <3> QED
      BY <2>0, <2>3, <2>5, <2>6, <3>1, <3>3, <3>4, <3>5, <3>6
  <2>12. CASE Svr!AcceptEvent
    <3>1. /\ acceptor.at = "event" /\ acceptor' = Svr!Goes(acceptor, "again")
          /\ events' = [events EXCEPT ![c] = Append(@, "conn")]
          /\ UNCHANGED <<table, count, accepting, recv, svr_sends, fault>>
      BY <2>2, <2>12 DEF Svr!AcceptEvent
    <3>2. SvsNew(c) /\ c \in table /\ SvsCounted
      BY <2>2, <3>1 DEF SvsAcceptPhase
    <3>3. /\ events' \in [Client -> Seq({"conn", "close", "full"})] /\ events'[c] = <<"conn">>
          /\ \A d \in Client : d # c => events'[d] = events[d]
      <4>1. Append(<<>>, "conn") = <<"conn">> /\ <<"conn">> \in Seq({"conn", "close", "full"})
        OBVIOUS
      <4>2. events' = [events EXCEPT ![c] = <<"conn">>]
        BY <3>1, <3>2, <4>1 DEF SvsNew
      <4> QED
        BY <2>0, <4>1, <4>2
    <3>4. SvsAcceptPhase(c)'
      BY <2>3, <2>4, <3>1, <3>2, <3>3 DEF SvsAcceptPhase, SvsSession, SvsNew, SvsCounted
    <3>5. SvsTable'
      BY <2>6, <3>1 DEF SvsTable
    <3> QED
      BY <2>0, <2>3, <2>5, <2>6, <3>1, <3>3, <3>4, <3>5
  <2>13. CASE Svr!AcceptAgain
    <3>1. /\ acceptor.at = "again" /\ accepting' = TRUE /\ acceptor' = Svr!Idle
          /\ UNCHANGED <<table, count, recv, svr_sends, events, fault>>
      BY <2>2, <2>13 DEF Svr!AcceptAgain, SvsOpen
    <3>2. (SvsSession(c) \/ SvsRefused(c)) /\ SvsCounted
      BY <2>2, <3>1 DEF SvsAcceptPhase
    <3>3. Svr!TypeOK'
      BY <2>0, <2>4, <3>1 DEF Svr!TypeOK
    <3>4. (\A d \in Client : SvsSettled(d)') /\ SvsOpen' /\ SvsCounted' /\ SvsWorkersIdle'
      BY <2>2, <2>4, <3>1, <3>2
         DEF SvsOthers, SvsSettled, SvsSession, SvsRefused, SvsOutside, SvsGone, SvsOpen,
             SvsTable, SvsCounted, SvsWorkersIdle
    <3>5. SvsRest'
      BY <2>2, <2>4, <3>1, <3>4 DEF SvsRest
    <3> QED
      BY <2>0, <3>1, <3>3, <3>5 DEF SvsAlive
  <2> QED
    BY <1>2, <2>7, <2>8, <2>9, <2>10, <2>11, <2>12, <2>13 DEF Svr!Accept
<1> QED
  BY <1>1, <1>2

-----------------------------------------------------------------------------
LEMMA SvsReceivesBegin ==
  ASSUME SvsAlive, NEW c \in Client, Svr!ReceiveBegin(c)
  PROVE  SvsAlive'
<1> USE SvsAssumed DEF Svr!svrVars
<1>0. /\ Svr!TypeOK /\ SvsRest /\ fault = "no" /\ recv[c] /\ worker[c] = Svr!Idle
      /\ recv' = [recv EXCEPT ![c] = FALSE]
      /\ UNCHANGED <<isRun, svrSock, table, count, accepting, acceptor, svr_sock, svr_remote,
                     svr_sends, closer, events, fault>>
  BY SvsQuiet DEF SvsAlive, Svr!ReceiveBegin
<1>1. recv' \in [Client -> BOOLEAN] /\ recv'[c] = FALSE
      /\ \A d \in Client : d # c => recv'[d] = recv[d]
  BY <1>0 DEF Svr!TypeOK
<1>2. worker \in [Client -> Svr!Thread] /\ SvsWorkersIdle
  BY <1>0 DEF Svr!TypeOK, SvsRest
<1>3. CASE svr_sock[c] = "closed" \/ svr_remote[c] = "failed"
  <2>1. worker' = worker
    <3>1. worker' = [worker EXCEPT ![c] = Svr!Idle]
      BY <1>3 DEF Svr!ReceiveBegin, Svr!WorkerMoves
    <3> QED
      BY <1>0, <1>2, <3>1
  <2>2. Svr!TypeOK'
    BY <1>0, <1>1, <2>1 DEF Svr!TypeOK
  <2>3. \A d \in Client : SvsSettled(d)'
    BY <1>0, <1>1 DEF SvsRest, SvsSettled, SvsSession, SvsRefused, SvsOutside, SvsGone
  <2>4. SvsRest'
    BY <1>0, <2>1, <2>3 DEF SvsRest, SvsOpen, SvsTable, SvsCounted, SvsWorkersIdle
  <2> QED
    BY <1>0, <2>2, <2>4 DEF SvsAlive
<1>4. CASE ~(svr_sock[c] = "closed" \/ svr_remote[c] = "failed")
  <2> DEFINE place == IF svr_remote[c] = "open" THEN "data" ELSE "find"
  <2>1. worker' = [worker EXCEPT ![c] = [Svr!Idle EXCEPT !.at = place]]
    BY <1>4 DEF Svr!ReceiveBegin, Svr!WorkerMoves
  <2>2. [Svr!Idle EXCEPT !.at = place] \in Svr!Thread
    BY DEF Svr!Thread, Svr!Place
  <2>3. /\ worker' \in [Client -> Svr!Thread] /\ worker'[c].at \in {"data", "find"}
        /\ \A d \in Client : d # c => worker'[d] = worker[d]
    BY <1>2, <2>1, <2>2
  <2> HIDE DEF place
  <2>4. SvsSession(c) /\ SvsOpen /\ SvsCounted
    BY <1>0, <1>4 DEF SvsRest, SvsSettled, SvsRefused, SvsOutside, SvsGone, SvsSession
  <2>5. Svr!TypeOK'
    BY <1>0, <1>1, <2>3 DEF Svr!TypeOK
  <2>6. SvsOthers(c)'
    <3>1. SvsOthers(c)
      BY <1>0 DEF SvsRest, SvsOthers
    <3> QED
      BY <1>0, <1>1, <3>1, SvsFrame
  <2>7. SvsWorks(c)'
    BY <1>0, <1>1, <1>2, <2>3, <2>4, <2>6
       DEF SvsWorks, SvsRest, SvsWorkersIdle, SvsSession, SvsOpen, SvsTable, SvsCounted
  <2> QED
    BY <1>0, <2>5, <2>7 DEF SvsAlive
<1> QED
  BY <1>3, <1>4

LEMMA SvsReceives ==
  ASSUME SvsAlive, NEW c \in Client, Svr!Receive(c)
  PROVE  SvsAlive'
<1> USE SvsAssumed DEF Svr!svrVars, Svr!sockVars
<1>1. CASE Svr!ReceiveBegin(c)
  BY <1>1, SvsReceivesBegin
<1>2. CASE ~ Svr!ReceiveBegin(c)
  <2>0. /\ Svr!Proc(c) = worker[c]
        /\ \A p : Svr!Moves(c, p) <=> worker' = [worker EXCEPT ![c] = p] /\ closer' = closer
    BY DEF Svr!Proc, Svr!Moves
  <2>1. /\ Svr!TypeOK /\ fault = "no" /\ worker[c].at # "idle" /\ worker[c] \in Svr!Thread
        /\ worker \in [Client -> Svr!Thread] /\ recv \in [Client -> BOOLEAN]
    BY <1>2, <2>0 DEF SvsAlive, Svr!TypeOK, Svr!Receive, Svr!ReceiveAgain,
       Svr!ReceiveThrows, Svr!CloseClient,
       Svr!WorkerCloses, Svr!CloseSession, Svr!CloseRemove, Svr!CloseLoad, Svr!CloseStore,
       Svr!CloseEvent, Svr!CloseSocket
  <2>2. SvsWorks(c)
    BY <2>1 DEF SvsAlive, SvsRest, SvsStops, SvsAccepts, SvsWorks, SvsCloses, SvsWorkersIdle
  <2>3. UNCHANGED <<isRun, svrSock, accepting, acceptor, svr_remote, svr_sends, closer>>
    BY <1>2, <2>0 DEF Svr!Receive, Svr!ReceiveAgain, Svr!ReceiveThrows, Svr!WorkerMoves,
       Svr!CloseClient, Svr!WorkerCloses,
       Svr!CloseSession, Svr!CloseRemove, Svr!CloseLoad, Svr!CloseStore,
       Svr!CloseEvent, Svr!CloseSocket
  <2>4. \A p \in Svr!Thread : worker' = [worker EXCEPT ![c] = p] =>
          /\ worker' \in [Client -> Svr!Thread] /\ worker'[c] = p
          /\ \A d \in Client : d # c => worker'[d] = worker[d]
    BY <2>1
  <2>5. CASE Svr!ReceiveAgain(c)
    <3>1. /\ worker[c].at = "data" /\ worker' = [worker EXCEPT ![c] = Svr!Idle]
          /\ recv' = [recv EXCEPT ![c] = (svr_sock[c] # "closed")]
          /\ UNCHANGED <<table, count, svr_sock, events, fault>>
      BY <2>5 DEF Svr!ReceiveAgain, Svr!WorkerMoves
    <3>2. SvsSession(c) /\ SvsCounted
      BY <2>2, <3>1 DEF SvsWorks, SvsClosePhase
    <3>3. recv' \in [Client -> BOOLEAN] /\ \A d \in Client : d # c => recv'[d] = recv[d]
      BY <2>1, <3>1
    <3>4. Svr!TypeOK'
      BY <2>1, <2>3, <2>4, <3>1, <3>3 DEF Svr!TypeOK
    <3>5. SvsWorkersIdle'
      BY <2>2, <2>4, <3>1 DEF SvsWorks, SvsWorkersIdle
    <3>6. SvsOthers(c)' /\ SvsSession(c)' /\ SvsOpen' /\ SvsCounted'
      BY <2>2, <2>3, <3>1, <3>2, <3>3, SvsFrame
         DEF SvsWorks, SvsSession, SvsOpen, SvsTable, SvsCounted
    <3>7. SvsRest'
      BY <2>2, <2>3, <3>1, <3>5, <3>6 DEF SvsRest, SvsWorks, SvsOthers, SvsSettled
    <3> QED
      BY <2>1, <3>1, <3>4, <3>7 DEF SvsAlive
  <2>8. CASE Svr!ReceiveThrows(c)
    <3>1. /\ worker[c].at = "data" /\ svr_remote[c] \in {"reset", "failed"}
          /\ UNCHANGED <<table, count, svr_sock, recv, svr_sends, events, fault>>
      BY <2>8 DEF Svr!ReceiveThrows
    <3>2. SvsSession(c) /\ SvsCounted /\ ~recv[c]
      BY <2>2, <3>1 DEF SvsWorks, SvsClosePhase
    <3>3. SvsOthers(c)' /\ SvsSession(c)' /\ SvsOpen' /\ SvsCounted'
      BY <2>2, <2>3, <3>1, <3>2, SvsFrame
         DEF SvsWorks, SvsSession, SvsOpen, SvsTable, SvsCounted
    <3>4. CASE svr_remote[c] = "reset"
      <4>1. worker' = [worker EXCEPT ![c] = Svr!Goes(worker[c], "find")]
        BY <2>8, <3>4 DEF Svr!ReceiveThrows, Svr!WorkerMoves
      <4>2. Svr!Goes(worker[c], "find") \in Svr!Thread /\ Svr!Goes(worker[c], "find").at = "find"
        <5>1. "find" \in Svr!Place
          BY DEF Svr!Place
        <5> QED
          BY <2>1, <5>1, SvsGoes
      <4>3. /\ worker' \in [Client -> Svr!Thread] /\ worker'[c].at = "find"
            /\ \A d \in Client : d # c => worker'[d] = worker[d]
        BY <2>4, <4>1, <4>2
      <4>4. Svr!TypeOK'
        BY <2>1, <2>3, <3>1, <4>3 DEF Svr!TypeOK
      <4>5. SvsWorks(c)'
        BY <2>2, <2>3, <3>1, <3>2, <3>3, <4>3 DEF SvsWorks
      <4> QED
        BY <2>1, <3>1, <4>4, <4>5 DEF SvsAlive
    <3>5. CASE svr_remote[c] = "failed"
      <4>1. worker' = [worker EXCEPT ![c] = Svr!Idle]
        BY <2>8, <3>5 DEF Svr!ReceiveThrows, Svr!WorkerMoves
      <4>2. Svr!TypeOK'
        BY <2>1, <2>3, <2>4, <3>1, <4>1 DEF Svr!TypeOK
      <4>3. SvsWorkersIdle'
        BY <2>2, <2>4, <4>1 DEF SvsWorks, SvsWorkersIdle
      <4>4. SvsRest'
        BY <2>2, <2>3, <3>1, <3>3, <4>3 DEF SvsRest, SvsWorks, SvsOthers, SvsSettled
      <4> QED
        BY <2>1, <3>1, <4>2, <4>4 DEF SvsAlive
    <3> QED
      BY <3>1, <3>4, <3>5
  <2>6. CASE Svr!CloseClient(c)
    <3>1. worker[c].at = "find" /\ UNCHANGED <<table, count, svr_sock, recv, svr_sends, events>>
      BY <2>6 DEF Svr!CloseClient
    <3>2. SvsSession(c) /\ SvsCounted
      BY <2>2, <3>1 DEF SvsWorks, SvsClosePhase
    <3>3. worker' = [worker EXCEPT ![c] = Svr!Goes(worker[c], "remove")] /\ fault' = fault
      BY <2>6, <3>2 DEF Svr!CloseClient, Svr!WorkerMoves, SvsSession
    <3>4. Svr!Goes(worker[c], "remove") \in Svr!Thread /\ Svr!Goes(worker[c], "remove").at = "remove"
      <4>1. "remove" \in Svr!Place
        BY DEF Svr!Place
      <4> QED
        BY <2>1, <4>1, SvsGoes
    <3>5. /\ worker' \in [Client -> Svr!Thread] /\ worker'[c].at = "remove"
          /\ \A d \in Client : d # c => worker'[d] = worker[d]
      BY <2>4, <3>3, <3>4
    <3>6. Svr!TypeOK'
      BY <2>1, <2>3, <3>1, <3>3, <3>5 DEF Svr!TypeOK
    <3>7. SvsOthers(c)' /\ SvsSession(c)' /\ SvsOpen' /\ SvsCounted'
      BY <2>2, <2>3, <3>1, <3>2, SvsFrame
         DEF SvsWorks, SvsSession, SvsOpen, SvsTable, SvsCounted
    <3>8. SvsWorks(c)'
      BY <2>2, <2>3, <3>1, <3>5, <3>7 DEF SvsWorks, SvsClosePhase
    <3> QED
      BY <2>1, <3>3, <3>6, <3>8 DEF SvsAlive
  <2>7. CASE Svr!WorkerCloses(c)
    <3>1. /\ Svr!CloseSession(c, c, svr_remote[c] = "shut") /\ recv' = recv
          /\ (svr_remote[c] = "shut") \in BOOLEAN
      BY <2>7 DEF Svr!WorkerCloses
    <3>2. SvsOpen /\ SvsOthers(c) /\ SvsClosePhase(worker[c], c) /\ ~recv[c]
      <4>1. worker[c].at \notin {"data", "find"}
        BY <2>0, <3>1 DEF Svr!CloseSession, Svr!CloseRemove, Svr!CloseLoad, Svr!CloseStore,
           Svr!CloseEvent, Svr!CloseSocket
      <4> QED
        BY <2>2, <4>1 DEF SvsWorks
    <3>3. PICK p \in Svr!Thread : p = worker[c]
      BY <2>1
    <3>4. /\ fault' = "no" /\ SvsOpen' /\ SvsOthers(c)' /\ count' \in 0..(Wrap - 1)
          /\ events' \in [Client -> Seq({"conn", "close", "full"})]
          /\ svr_sock' \in [Client -> {"none", "backlog", "open", "closed"}]
          /\ \E q \in Svr!Thread :
               /\ Svr!Moves(c, q)
               /\ \/ q = Svr!Idle /\ SvsGone(c)' /\ SvsCounted'
                  \/ q.who = p.who /\ SvsClosePhase(q, c)'
      <4>1. Svr!TypeOK /\ fault = "no" /\ Svr!Proc(c) = p /\ UNCHANGED <<isRun, svrSock, recv, svr_sends>>
        BY <2>0, <2>1, <2>3, <3>1, <3>3
      <4>2. SvsClosePhase(p, c)
        BY <3>2, <3>3
      <4>3. SvsClosed(c, c, p)
        BY ONLY <3>1, <3>2, <4>1, <4>2, SvsCloseStep
      <4> QED
        BY <4>3 DEF SvsClosed
    <3>5. PICK q \in Svr!Thread :
               /\ Svr!Moves(c, q)
               /\ \/ q = Svr!Idle /\ SvsGone(c)' /\ SvsCounted'
                  \/ q.who = p.who /\ SvsClosePhase(q, c)'
      BY <3>4
    <3>6. /\ worker' \in [Client -> Svr!Thread] /\ worker'[c] = q
          /\ \A d \in Client : d # c => worker'[d] = worker[d]
      BY <2>0, <2>4, <3>5
    <3>7. Svr!TypeOK'
      <4>1. table' \subseteq Client /\ fault' = "no"
        <5>1. fault' \in {"no", "send", "other"}
          BY <2>1, <3>1 DEF Svr!TypeOK, Svr!CloseSession, Svr!CloseRemove, Svr!CloseLoad,
             Svr!CloseStore, Svr!CloseEvent, Svr!CloseSocket, Svr!Dies
        <5> QED
          BY <3>4, <5>1 DEF SvsOpen, SvsTable
      <4> QED
        BY <2>1, <2>3, <3>1, <3>4, <3>6, <4>1 DEF Svr!TypeOK
    <3>8. CASE q = Svr!Idle /\ SvsGone(c)' /\ SvsCounted'
      <4>1. SvsWorkersIdle'
        BY <2>2, <3>6, <3>8 DEF SvsWorks, SvsWorkersIdle
      <4>2. SvsRest'
        BY <2>2, <2>3, <3>4, <3>8, <4>1 DEF SvsRest, SvsWorks, SvsOthers, SvsSettled
      <4> QED
        BY <3>4, <3>7, <4>2 DEF SvsAlive
    <3>9. CASE SvsClosePhase(q, c)'
      <4>1. SvsClosePhase(worker[c], c)'
        BY <3>6, <3>9 DEF SvsClosePhase
      <4>2. SvsWorks(c)'
        BY <2>2, <2>3, <3>1, <3>2, <3>4, <3>6, <4>1 DEF SvsWorks
      <4> QED
        BY <3>4, <3>7, <4>2 DEF SvsAlive
    <3> QED
      BY <3>5, <3>8, <3>9
  <2> QED
    BY <1>2, <2>5, <2>6, <2>7, <2>8 DEF Svr!Receive
<1> QED
  BY <1>1, <1>2

-----------------------------------------------------------------------------
(* The application closes a session, stops the server, and starts it; and  *)
(* the clients come and go.                                                *)
LEMMA SvsAppBegins ==
  ASSUME SvsAlive, NEW c \in Client, Svr!AppBegin(c)
  PROVE  SvsAlive'
<1> USE SvsAssumed DEF Svr!svrVars, Svr!sockVars
<1>0. /\ Svr!TypeOK /\ SvsRest /\ fault = "no" /\ isRun
      /\ closer' = [Svr!Idle EXCEPT !.at = "remove", !.who = c]
      /\ UNCHANGED <<isRun, svrSock, table, count, accepting, acceptor, svr_sock, svr_remote,
                     recv, svr_sends, worker, events, fault>>
  BY SvsQuiet DEF SvsAlive, Svr!AppBegin
<1>1. closer' \in Svr!Thread /\ closer'.at = "remove" /\ closer'.who = c
  BY <1>0 DEF Svr!Thread, Svr!Place
<1>2. SvsSession(c)
  <2>1. SvsSettled(c)
    BY <1>0 DEF SvsRest
  <2>2. Svr!Told(c) /\ ~ Svr!Ended(c)
    BY DEF Svr!AppBegin
  <2>3. events[c] # <<>> /\ events[c] # <<"full">> /\ events[c] # <<"conn", "close">>
    BY <2>2 DEF Svr!Told, Svr!Ended
  <2> QED
    BY <1>0, <2>1, <2>3 DEF SvsSettled, SvsRefused, SvsOutside, SvsGone
<1>3. Svr!TypeOK'
  BY <1>0, <1>1 DEF Svr!TypeOK
<1>4. SvsOthers(c)'
  <2>1. SvsOthers(c)
    BY <1>0 DEF SvsRest, SvsOthers
  <2> QED
    BY <1>0, <2>1, SvsFrame
<1>5. SvsClosePhase(closer, c)'
  BY <1>0, <1>1, <1>2 DEF SvsClosePhase, SvsSession, SvsCounted, SvsRest
<1>6. SvsCloses(c)'
  BY <1>0, <1>1, <1>4, <1>5 DEF SvsCloses, SvsRest, SvsWorkersIdle, SvsOpen, SvsTable
<1> QED
  BY <1>0, <1>3, <1>6 DEF SvsAlive

LEMMA SvsAppCloses ==
  ASSUME SvsAlive, NEW c \in Client, Svr!AppCloses(c)
  PROVE  SvsAlive'
<1> USE SvsAssumed
<1>0. /\ Svr!Proc("app") = closer
      /\ \A p : Svr!Moves("app", p) <=> closer' = p /\ worker' = worker
  BY DEF Svr!Proc, Svr!Moves
<1>1. /\ Svr!TypeOK /\ fault = "no" /\ closer.who = c /\ closer \in Svr!Thread
      /\ Svr!CloseSession("app", c, FALSE)
      /\ UNCHANGED <<isRun, svrSock, accepting, acceptor, svr_remote, recv, svr_sends>>
  BY DEF SvsAlive, Svr!TypeOK, Svr!AppCloses
<1>2. closer.at \in {"remove", "load", "store", "event", "close"}
  BY <1>0, <1>1 DEF Svr!CloseSession, Svr!CloseRemove, Svr!CloseLoad, Svr!CloseStore,
     Svr!CloseEvent, Svr!CloseSocket
<1>3. SvsCloses(c)
  BY <1>1, <1>2 DEF SvsAlive, SvsRest, SvsStops, SvsAccepts, SvsWorks, SvsCloses
<1>4. PICK p \in Svr!Thread : p = closer
  BY <1>1
<1>5. /\ fault' = "no" /\ SvsOpen' /\ SvsOthers(c)' /\ count' \in 0..(Wrap - 1)
      /\ events' \in [Client -> Seq({"conn", "close", "full"})]
      /\ svr_sock' \in [Client -> {"none", "backlog", "open", "closed"}]
      /\ \E q \in Svr!Thread :
           /\ Svr!Moves("app", q)
           /\ \/ q = Svr!Idle /\ SvsGone(c)' /\ SvsCounted'
              \/ q.who = p.who /\ SvsClosePhase(q, c)'
  <2>1. SvsOpen /\ SvsOthers(c) /\ SvsClosePhase(p, c) /\ FALSE \in BOOLEAN
    BY <1>3, <1>4 DEF SvsCloses
  <2>2. PICK t : t = "app"
    OBVIOUS
  <2>3. Svr!Proc(t) = p /\ Svr!CloseSession(t, c, FALSE)
    BY <1>0, <1>1, <1>4, <2>2
  <2>4. UNCHANGED <<isRun, svrSock, recv, svr_sends>>
    BY <1>1
  <2> HIDE <2>2
  <2>5. /\ fault' = "no" /\ SvsOpen' /\ SvsOthers(c)' /\ count' \in 0..(Wrap - 1)
        /\ events' \in [Client -> Seq({"conn", "close", "full"})]
        /\ svr_sock' \in [Client -> {"none", "backlog", "open", "closed"}]
        /\ \E q \in Svr!Thread :
             /\ Svr!Moves(t, q)
             /\ \/ q = Svr!Idle /\ SvsGone(c)' /\ SvsCounted'
                \/ q.who = p.who /\ SvsClosePhase(q, c)'
    <3>1. SvsClosed(t, c, p)
      BY ONLY <1>1, <2>1, <2>3, <2>4, SvsCloseStep
    <3> QED
      BY ONLY <3>1 DEF SvsClosed
  <2> QED
    BY <2>2, <2>5
<1>6. PICK q \in Svr!Thread :
           /\ Svr!Moves("app", q)
           /\ \/ q = Svr!Idle /\ SvsGone(c)' /\ SvsCounted'
              \/ q.who = p.who /\ SvsClosePhase(q, c)'
  BY <1>5
<1>7. closer' = q /\ worker' = worker
  BY <1>0, <1>6
<1>8. Svr!TypeOK'
  <2>1. table' \subseteq Client /\ fault' = "no"
    <3>1. fault' \in {"no", "send", "other"}
      BY <1>1 DEF Svr!TypeOK, Svr!CloseSession, Svr!CloseRemove, Svr!CloseLoad,
         Svr!CloseStore, Svr!CloseEvent, Svr!CloseSocket, Svr!Dies
    <3> QED
      BY <1>5, <3>1 DEF SvsOpen, SvsTable
  <2> QED
    BY <1>1, <1>5, <1>7, <2>1 DEF Svr!TypeOK
<1>9. CASE q = Svr!Idle /\ SvsGone(c)' /\ SvsCounted'
  <2>1. SvsRest'
    BY <1>1, <1>3, <1>5, <1>7, <1>9
       DEF SvsRest, SvsCloses, SvsOthers, SvsSettled, SvsWorkersIdle
  <2> QED
    BY <1>5, <1>8, <2>1 DEF SvsAlive
<1>10. CASE q.who = p.who /\ SvsClosePhase(q, c)'
  <2>1. SvsClosePhase(closer, c)'
    BY <1>7, <1>10 DEF SvsClosePhase
  <2>2. SvsCloses(c)'
    BY <1>1, <1>3, <1>4, <1>5, <1>7, <1>10, <2>1 DEF SvsCloses, SvsWorkersIdle
  <2> QED
    BY <1>5, <1>8, <2>2 DEF SvsAlive
<1> QED
  BY <1>6, <1>9, <1>10

LEMMA SvsStopMoves ==
  ASSUME SvsAlive, Svr!Stop
  PROVE  SvsAlive'
<1> USE SvsAssumed DEF Svr!svrVars, Svr!sockVars
<1>0. /\ Svr!TypeOK /\ fault = "no" /\ count \in 0..(Wrap - 1) /\ closer \in Svr!Thread
      /\ svr_sock \in [Client -> {"none", "backlog", "open", "closed"}]
  BY DEF SvsAlive, Svr!TypeOK
<1>1. CASE Svr!StopBegin
  <2>1. /\ SvsRest /\ isRun /\ isRun' = FALSE
        /\ closer' = [Svr!Idle EXCEPT !.at = "closeall", !.who = Svr!App]
        /\ UNCHANGED <<svrSock, table, count, accepting, acceptor, svr_sock, svr_remote,
                       recv, svr_sends, worker, events, fault>>
    BY <1>1, SvsQuiet DEF Svr!StopBegin
  <2>2. closer' \in Svr!Thread /\ closer'.at = "closeall" /\ closer'.who = Svr!App
    BY <2>1 DEF Svr!Thread, Svr!Place
  <2>3. Svr!TypeOK'
    BY <1>0, <2>1, <2>2 DEF Svr!TypeOK
  <2>4. \A d \in Client : SvsSettled(d)'
    BY <2>1 DEF SvsRest, SvsSettled, SvsSession, SvsRefused, SvsOutside, SvsGone
  <2>5. SvsStops'
    BY <2>1, <2>2, <2>4 DEF SvsStops, SvsRest, SvsWorkersIdle, SvsOpen, SvsTable
  <2> QED
    BY <1>0, <2>1, <2>3, <2>5 DEF SvsAlive
<1>2. CASE ~ Svr!StopBegin
  <2>1. closer.at \in {"closeall", "zero", "clear", "server"}
    BY <1>2 DEF Svr!Stop, Svr!StopCloses, Svr!StopZero, Svr!StopClears, Svr!StopEnds
  <2>2. SvsStops
    BY <2>1 DEF SvsAlive, SvsRest, SvsAccepts, SvsWorks, SvsCloses, SvsClosePhase
  <2>3. UNCHANGED <<isRun, accepting, acceptor, svr_remote, recv, svr_sends, worker, events>>
    BY <1>2 DEF Svr!Stop, Svr!StopCloses, Svr!StopZero, Svr!StopClears, Svr!StopEnds
  <2>4. ASSUME NEW place \in {"zero", "clear", "server"}
        PROVE  LET p == Svr!Goes(closer, place) IN
               p \in Svr!Thread /\ p.at = place /\ p.who = Svr!App
    <3>1. place \in Svr!Place
      BY DEF Svr!Place
    <3> QED
      BY <1>0, <2>2, <3>1, SvsGoes DEF SvsStops
  <2>5. CASE Svr!StopCloses
    <3>1. /\ closer.at = "closeall" /\ closer' = Svr!Goes(closer, "zero")
          /\ svr_sock' = [d \in Client |-> IF d \in table THEN "closed" ELSE svr_sock[d]]
          /\ UNCHANGED <<svrSock, table, count>>
      BY <2>5 DEF Svr!StopCloses
    <3>2. \A d \in Client : SvsSettled(d)
      BY <2>2, <3>1 DEF SvsStops
    <3>3. fault' = fault
      <4>1. \A d \in table : svr_sock[d] # "closed"
        BY <2>2, <3>2 DEF SvsStops, SvsTable, SvsSettled, SvsSession, SvsRefused, SvsOutside, SvsGone
      <4> QED
        BY <2>5, <4>1 DEF Svr!StopCloses
    <3>4. Svr!TypeOK'
      <4>1. svr_sock' \in [Client -> {"none", "backlog", "open", "closed"}]
        BY <1>0, <3>1
      <4> QED
        BY <1>0, <2>3, <2>4, <3>1, <3>3, <4>1 DEF Svr!TypeOK
    <3>5. \A d \in Client : SvsStopped(d)'
      BY <2>2, <2>3, <3>1, <3>2
         DEF SvsStops, SvsStopped, SvsSettled, SvsSession, SvsRefused, SvsOutside, SvsGone
    <3>6. SvsStops'
      BY <2>2, <2>3, <2>4, <3>1, <3>5 DEF SvsStops, SvsWorkersIdle, SvsTable
    <3> QED
      BY <1>0, <3>3, <3>4, <3>6 DEF SvsAlive
  <2>6. CASE Svr!StopZero
    <3>1. /\ closer.at = "zero" /\ closer' = Svr!Goes(closer, "clear") /\ count' = 0
          /\ UNCHANGED <<svrSock, table, svr_sock, fault>>
      BY <2>6 DEF Svr!StopZero
    <3>2. Svr!TypeOK'
      <4>1. count' \in 0..(Wrap - 1)
        BY <3>1
      <4> QED
        BY <1>0, <2>3, <2>4, <3>1, <4>1 DEF Svr!TypeOK
    <3>3. \A d \in Client : SvsStopped(d)'
      BY <2>2, <2>3, <3>1 DEF SvsStops, SvsStopped, SvsRefused, SvsOutside, SvsGone
    <3>4. SvsStops'
      BY <2>2, <2>3, <2>4, <3>1, <3>3 DEF SvsStops, SvsWorkersIdle, SvsTable
    <3> QED
      BY <1>0, <3>1, <3>2, <3>4 DEF SvsAlive
  <2>7. CASE Svr!StopClears
    <3>1. /\ closer.at = "clear" /\ closer' = Svr!Goes(closer, "server") /\ table' = {}
          /\ UNCHANGED <<svrSock, count, svr_sock, fault>>
      BY <2>7 DEF Svr!StopClears
    <3>2. Svr!TypeOK'
      BY <1>0, <2>3, <2>4, <3>1 DEF Svr!TypeOK
    <3>3. \A d \in Client : SvsStopped(d)'
      BY <2>2, <2>3, <3>1 DEF SvsStops, SvsStopped, SvsRefused, SvsOutside, SvsGone
    <3>4. SvsTable'
      <4>1. Svr!Cardinality({}) = 0
        BY FS_EmptySet, SvsCardinality
      <4> QED
        BY <3>1, <4>1 DEF SvsTable
    <3>5. SvsStops'
      BY <2>2, <2>3, <2>4, <3>1, <3>3, <3>4 DEF SvsStops, SvsWorkersIdle
    <3> QED
      BY <1>0, <3>1, <3>2, <3>5 DEF SvsAlive
  <2>8. CASE Svr!StopEnds
    <3>1. /\ closer.at = "server" /\ closer' = Svr!Idle /\ table' = Svr!NoTable
          /\ svrSock' = "closed" /\ UNCHANGED <<count, svr_sock, fault>>
      BY <2>8 DEF Svr!StopEnds
    <3>2. Svr!TypeOK'
      BY <1>0, <2>3, <3>1 DEF Svr!TypeOK
    <3>3. \A d \in Client : SvsSettled(d)'
      BY <2>2, <2>3, <3>1
         DEF SvsStops, SvsStopped, SvsSettled, SvsRefused, SvsOutside, SvsGone
    <3>4. SvsRest'
      BY <2>2, <2>3, <3>1, <3>3 DEF SvsStops, SvsRest, SvsWorkersIdle
    <3> QED
      BY <1>0, <3>1, <3>2, <3>4 DEF SvsAlive
  <2> QED
    BY <1>2, <2>5, <2>6, <2>7, <2>8 DEF Svr!Stop
<1> QED
  BY <1>1, <1>2

LEMMA SvsStarts ==
  ASSUME SvsAlive, Svr!Start
  PROVE  SvsAlive'
<1> USE SvsAssumed DEF Svr!sockVars
<1>0. /\ Svr!TypeOK /\ fault = "no" /\ SvsRest /\ ~isRun /\ svrSock = "none"
      /\ table' = {} /\ svrSock' = "open" /\ accepting' = TRUE /\ isRun' = TRUE
      /\ UNCHANGED <<count, acceptor, svr_sock, svr_remote, recv, svr_sends, worker, closer, events, fault>>
  BY SvsQuiet DEF SvsAlive, Svr!Start
<1>1. /\ table = Svr!NoTable /\ count = 0 /\ \A d \in Client : svr_sock[d] = "none" /\ SvsSettled(d)
  BY <1>0 DEF SvsRest, SvsOpen
<1>2. Svr!TypeOK'
  BY <1>0 DEF Svr!TypeOK
<1>3. \A d \in Client : SvsSettled(d)'
  BY <1>0, <1>1 DEF SvsSettled, SvsSession, SvsRefused, SvsOutside, SvsGone
<1>4. SvsOpen' /\ SvsCounted'
  <2>1. Svr!Cardinality({}) = 0
    BY FS_EmptySet, SvsCardinality
  <2> QED
    BY <1>0, <1>1, <2>1 DEF SvsOpen, SvsTable, SvsCounted
<1>5. SvsRest'
  BY <1>0, <1>3, <1>4 DEF SvsRest, SvsWorkersIdle
<1> QED
  BY <1>0, <1>2, <1>5 DEF SvsAlive

(* The invariant does not know what the clients' ends have done, which of  *)
(* the clients without a session wait, nor what is being sent.             *)
LEMMA SvsTouch ==
  ASSUME SvsAlive, Svr!TypeOK',
         UNCHANGED <<isRun, svrSock, table, count, accepting, acceptor, recv, worker, closer,
                     events, fault>>,
         \A d \in Client :
           \/ svr_sock'[d] = svr_sock[d]
           \/ svrSock = "open" /\ svr_sock[d] = "none" /\ svr_sock'[d] = "backlog"
  PROVE  SvsAlive'
<1> USE SvsAssumed
<1>1. ASSUME NEW d \in Client, SvsSettled(d) PROVE SvsSettled(d)'
  BY <1>1 DEF SvsSettled, SvsSession, SvsRefused, SvsOutside, SvsGone
<1>2. ASSUME NEW d \in Client, SvsStopped(d) PROVE SvsStopped(d)'
  BY <1>2 DEF SvsStopped, SvsRefused, SvsOutside, SvsGone
<1>3. ASSUME NEW d \in Client, SvsOthers(d) PROVE SvsOthers(d)'
  BY <1>1, <1>3 DEF SvsOthers
<1>4. CASE SvsRest
  <2>1. SvsRest'
    BY <1>1, <1>4 DEF SvsRest, SvsWorkersIdle, SvsOpen, SvsTable, SvsCounted
  <2> QED
    BY <2>1 DEF SvsAlive
<1>5. CASE SvsStops
  <2>1. SvsStops'
    BY <1>1, <1>2, <1>5 DEF SvsStops, SvsWorkersIdle, SvsTable
  <2> QED
    BY <2>1 DEF SvsAlive
<1>6. ASSUME NEW c \in Client, SvsAccepts(c) PROVE SvsAlive'
  <2>1. SvsAcceptPhase(c)'
    BY <1>6 DEF SvsAccepts, SvsAcceptPhase, SvsNew, SvsCounted, SvsSession, SvsRefused
  <2>2. SvsAccepts(c)'
    BY <1>3, <1>6, <2>1 DEF SvsAccepts, SvsWorkersIdle, SvsOpen, SvsTable
  <2> QED
    BY <2>2 DEF SvsAlive
<1>7. ASSUME NEW c \in Client, SvsWorks(c) PROVE SvsAlive'
  <2>1. SvsSession(c) => SvsSession(c)'
    BY DEF SvsSession
  <2>2. SvsClosePhase(worker[c], c) => SvsClosePhase(worker[c], c)'
    BY DEF SvsClosePhase, SvsLeft, SvsCounted, SvsSession
  <2>3. SvsWorks(c)'
    BY <1>3, <1>7, <2>1, <2>2 DEF SvsWorks, SvsOpen, SvsTable, SvsCounted
  <2> QED
    BY <2>3 DEF SvsAlive
<1>8. ASSUME NEW c \in Client, SvsCloses(c) PROVE SvsAlive'
  <2>1. SvsClosePhase(closer, c)'
    BY <1>8 DEF SvsCloses, SvsClosePhase, SvsLeft, SvsCounted, SvsSession
  <2>2. SvsCloses(c)'
    BY <1>3, <1>8, <2>1 DEF SvsCloses, SvsWorkersIdle, SvsOpen, SvsTable
  <2> QED
    BY <2>2 DEF SvsAlive
<1> QED
  BY <1>4, <1>5, <1>6, <1>7, <1>8 DEF SvsAlive

LEMMA SvsEnds ==
  ASSUME SvsAlive, NEW d \in Client, Svr!Connects(d) \/ \E how \in Svr!How : Svr!Ends(d, how)
  PROVE  SvsAlive'
<1> USE DEF Svr!svrVars
<1>1. /\ Svr!TypeOK
      /\ svr_remote \in [Client -> {"open"} \cup Svr!How]
      /\ svr_sock \in [Client -> {"none", "backlog", "open", "closed"}]
  BY DEF SvsAlive, Svr!TypeOK
<1>2. /\ UNCHANGED <<isRun, svrSock, table, count, accepting, acceptor, recv, svr_sends, worker, closer,
                     events, fault>>
      /\ \/ svrSock = "open" /\ svr_sock[d] = "none"
            /\ svr_sock' = [svr_sock EXCEPT ![d] = "backlog"] /\ svr_remote' = svr_remote
         \/ \E how \in Svr!How : svr_sock' = svr_sock /\ svr_remote' = [svr_remote EXCEPT ![d] = how]
  BY DEF Svr!Connects, Svr!Ends
<1>3. /\ svr_sock' \in [Client -> {"none", "backlog", "open", "closed"}]
      /\ svr_remote' \in [Client -> {"open"} \cup Svr!How]
      /\ \A c \in Client : \/ svr_sock'[c] = svr_sock[c]
                           \/ svrSock = "open" /\ svr_sock[c] = "none" /\ svr_sock'[c] = "backlog"
  BY <1>1, <1>2
<1>4. Svr!TypeOK'
  BY <1>1, <1>2, <1>3 DEF Svr!TypeOK
<1> QED
  BY <1>2, <1>3, <1>4, SvsTouch

LEMMA SvsAliveIsRight ==
  SvsAlive => /\ Svr!CountIsTheTable /\ Svr!AtMostMaxClient
             /\ Svr!ConnBeforeClose /\ Svr!CallbacksSurvive
<1> SUFFICES ASSUME SvsAlive
             PROVE  /\ Svr!CountIsTheTable /\ Svr!AtMostMaxClient
                    /\ Svr!ConnBeforeClose /\ Svr!CallbacksSurvive
  OBVIOUS
<1> USE SvsAssumed
<1>1. fault = "no" /\ Svr!CallbacksSurvive
  BY DEF SvsAlive, Svr!CallbacksSurvive
<1>2. Svr!CountIsTheTable
  <2> SUFFICES ASSUME Svr!Quiet, table # Svr!NoTable PROVE SvsCounted
    BY DEF Svr!CountIsTheTable, SvsCounted
  <2>1. Svr!MayBegin
    BY <1>1 DEF Svr!MayBegin
  <2>2. SvsRest
    BY <2>1, SvsQuiet
  <2> QED
    BY <2>2 DEF SvsRest
<1>3. Svr!AtMostMaxClient
  <2>1. table = Svr!NoTable \/ SvsTable
    BY DEF SvsAlive, SvsRest, SvsStops, SvsAccepts, SvsWorks, SvsCloses, SvsOpen
  <2> QED
    BY <2>1 DEF SvsTable, Svr!AtMostMaxClient
<1>4. Svr!ConnBeforeClose
  <2> SUFFICES ASSUME NEW c \in Client
               PROVE  events[c] \in {<<>>, <<"full">>, <<"conn">>, <<"conn", "close">>}
    BY DEF Svr!ConnBeforeClose, Svr!Ended
  <2> DEFINE Heard(d) == events[d] \in {<<>>, <<"full">>, <<"conn">>, <<"conn", "close">>}
  <2>1. ASSUME NEW d \in Client, SvsSettled(d) \/ SvsStopped(d) PROVE Heard(d)
    BY <2>1 DEF SvsSettled, SvsStopped, SvsSession, SvsRefused, SvsOutside, SvsGone
  <2>2. ASSUME NEW d \in Client, NEW p, SvsClosePhase(p, d) PROVE Heard(d)
    BY <2>2 DEF SvsClosePhase, SvsSession, SvsLeft
  <2>3. ASSUME NEW d \in Client, SvsAcceptPhase(d) PROVE Heard(d)
    BY <2>3 DEF SvsAcceptPhase, SvsSession, SvsRefused, SvsNew
  <2>4. ASSUME NEW d \in Client, SvsSession(d) PROVE Heard(d)
    BY <2>4 DEF SvsSession
  <2> HIDE DEF Heard
  <2>5. CASE SvsRest \/ SvsStops
    <3>1. SvsSettled(c) \/ SvsStopped(c)
      BY <2>5 DEF SvsRest, SvsStops
    <3> QED
      BY <2>1, <3>1 DEF Heard
  <2>6. ASSUME NEW d \in Client, SvsAccepts(d) \/ SvsWorks(d) \/ SvsCloses(d) PROVE Heard(c)
    <3>1. d = c \/ SvsSettled(c)
      BY <2>6 DEF SvsAccepts, SvsWorks, SvsCloses, SvsOthers
    <3>2. Heard(d)
      BY <2>2, <2>3, <2>4, <2>6 DEF SvsAccepts, SvsWorks, SvsCloses
    <3> QED
      BY <2>1, <3>1, <3>2
  <2> QED
    BY <2>5, <2>6 DEF SvsAlive, Heard
<1> QED
  BY <1>1, <1>2, <1>3, <1>4

(* The callback of a send runs, and may die.                               *)
LEMMA SvsSends ==
  ASSUME SvsAlive, NEW d \in Client, Svr!Send(d) \/ Svr!SendDataEnd(d)
  PROVE  SvsIInv'
<1> USE SvsAssumed DEF Svr!svrVars
<1>0. /\ Svr!TypeOK /\ fault = "no" /\ MaxSend \in Nat
      /\ svr_sends \in [Client -> 0..MaxSend] /\ svr_sends[d] \in 0..MaxSend
  BY DEF SvsAlive, Svr!TypeOK
<1>1. /\ UNCHANGED <<isRun, svrSock, table, count, accepting, acceptor, svr_sock, svr_remote,
                     recv, worker, closer, events>>
      /\ \/ svr_sends[d] < MaxSend /\ svr_sends' = [svr_sends EXCEPT ![d] = @ + 1]
         \/ svr_sends[d] > 0 /\ svr_sends' = [svr_sends EXCEPT ![d] = @ - 1]
      /\ fault' = "no" \/ (fault' = "send" /\ Svr!EndSendThrows(d))
  BY <1>0 DEF Svr!Send, Svr!SendDataEnd
<1>2. svr_sends' \in [Client -> 0..MaxSend]
  <2>1. CASE svr_sends[d] < MaxSend /\ svr_sends' = [svr_sends EXCEPT ![d] = @ + 1]
    <3>1. svr_sends[d] + 1 \in 0..MaxSend
      BY <1>0, <2>1
    <3> QED
      BY <1>0, <2>1, <3>1
  <2>2. CASE svr_sends[d] > 0 /\ svr_sends' = [svr_sends EXCEPT ![d] = @ - 1]
    <3>1. svr_sends[d] - 1 \in 0..MaxSend
      BY <1>0, <2>2
    <3> QED
      BY <1>0, <2>2, <3>1
  <2> QED
    BY <1>1, <2>1, <2>2
<1>3. Svr!TypeOK'
  BY <1>0, <1>1, <1>2 DEF Svr!TypeOK
<1>4. CASE fault' = "no"
  <2>1. SvsAlive'
    BY <1>0, <1>1, <1>3, <1>4, SvsTouch
  <2> QED
    BY <2>1 DEF SvsIInv
<1>5. CASE fault' = "send" /\ Svr!EndSendThrows(d)
  <2>1. Svr!CountIsTheTable' /\ Svr!AtMostMaxClient' /\ Svr!ConnBeforeClose'
    BY <1>1, SvsAliveIsRight
       DEF Svr!CountIsTheTable, Svr!AtMostMaxClient, Svr!ConnBeforeClose, Svr!Quiet, Svr!Ended
  <2>2. Svr!EndSendThrows(d)'
    BY <1>1, <1>5 DEF Svr!EndSendThrows
  <2> QED
    BY <1>3, <1>5, <2>1, <2>2 DEF SvsIInv, SvsDead
<1> QED
  BY <1>1, <1>4, <1>5

(* After the death of a callback only the clients' ends move.              *)
LEMMA SvsDeadStays ==
  ASSUME SvsDead, [Svr!Next]_svr
  PROVE  SvsDead'
<1> USE SvsAssumed DEF Svr!svrVars
<1>0. Svr!TypeOK /\ fault = "send"
  BY DEF SvsDead
<1>1. \/ \E d \in Client : Svr!Connects(d) \/ \E how \in Svr!How : Svr!Ends(d, how)
      \/ UNCHANGED svr
  BY <1>0 DEF Svr!Next, Svr!MayBegin, Svr!Start, Svr!Accept, Svr!AcceptBegin, Svr!AcceptFull,
     Svr!AcceptAdd, Svr!AcceptLoad, Svr!AcceptStore, Svr!AcceptReceive, Svr!AcceptEvent,
     Svr!AcceptAgain, Svr!Stop, Svr!StopBegin, Svr!StopCloses, Svr!StopZero, Svr!StopClears,
     Svr!StopEnds, Svr!Receive, Svr!ReceiveBegin, Svr!ReceiveAgain, Svr!ReceiveThrows,
     Svr!CloseClient, Svr!WorkerCloses, Svr!AppBegin, Svr!AppCloses, Svr!Send, Svr!SendDataEnd
<1>2. /\ UNCHANGED <<isRun, svrSock, table, count, accepting, acceptor, recv, svr_sends, worker,
                     closer, events, fault>>
      /\ svr_sock' \in [Client -> {"none", "backlog", "open", "closed"}]
      /\ svr_remote' \in [Client -> {"open"} \cup Svr!How]
      /\ \A c \in Client : /\ svr_sock[c] = "closed" => svr_sock'[c] = "closed"
                           /\ svr_remote[c] # "open" => svr_remote'[c] # "open"
  <2>1. /\ svr_sock \in [Client -> {"none", "backlog", "open", "closed"}]
        /\ svr_remote \in [Client -> {"open"} \cup Svr!How]
    BY <1>0 DEF Svr!TypeOK
  <2>2. CASE UNCHANGED svr
    BY <2>1, <2>2 DEF svr
  <2>3. ASSUME NEW d \in Client, Svr!Connects(d)
        PROVE  /\ UNCHANGED <<isRun, svrSock, table, count, accepting, acceptor, recv, svr_sends,
                              worker, closer, events, fault, svr_remote>>
               /\ svr_sock[d] = "none" /\ svr_sock' = [svr_sock EXCEPT ![d] = "backlog"]
    BY <2>3 DEF Svr!Connects
  <2>4. ASSUME NEW d \in Client, NEW how \in Svr!How, Svr!Ends(d, how)
        PROVE  /\ UNCHANGED <<isRun, svrSock, table, count, accepting, acceptor, recv, svr_sends,
                              worker, closer, events, fault, svr_sock>>
               /\ svr_remote' = [svr_remote EXCEPT ![d] = how] /\ how # "open"
    BY <2>4 DEF Svr!Ends, Svr!How
  <2> QED
    BY <1>1, <2>1, <2>2, <2>3, <2>4
<1>3. Svr!TypeOK'
  BY <1>0, <1>2 DEF Svr!TypeOK
<1>4. Svr!CountIsTheTable' /\ Svr!AtMostMaxClient' /\ Svr!ConnBeforeClose'
  BY <1>2 DEF SvsDead, Svr!CountIsTheTable, Svr!AtMostMaxClient, Svr!ConnBeforeClose, Svr!Quiet,
     Svr!Ended
<1>5. \E c \in Client : Svr!EndSendThrows(c)'
  BY <1>2 DEF SvsDead, Svr!EndSendThrows
<1> QED
  BY <1>0, <1>2, <1>3, <1>4, <1>5 DEF SvsDead

LEMMA SvsStep == SvsIInv /\ [Svr!Next]_svr => SvsIInv'
<1> SUFFICES ASSUME SvsIInv, [Svr!Next]_svr PROVE SvsIInv'
  OBVIOUS
<1>1. CASE SvsAlive /\ Svr!Next
  BY <1>1, SvsStarts, SvsAcceptsStep, SvsStopMoves, SvsReceives, SvsAppBegins, SvsAppCloses,
     SvsEnds, SvsSends DEF Svr!Next, SvsIInv
<1>2. CASE SvsAlive /\ UNCHANGED svr
  <2>1. Svr!TypeOK'
    BY <1>2 DEF svr, SvsAlive, Svr!TypeOK
  <2>2. SvsAlive'
    BY <1>2, <2>1, SvsTouch DEF svr
  <2> QED
    BY <2>2 DEF SvsIInv
<1>3. CASE SvsDead
  BY <1>3, SvsDeadStays DEF SvsIInv
<1> QED
  BY <1>1, <1>2, <1>3 DEF SvsIInv

LEMMA SvsIsRight ==
  SvsIInv => /\ Svr!CountIsTheTable /\ Svr!AtMostMaxClient
             /\ Svr!ConnBeforeClose /\ Svr!CallbacksSurvive
BY SvsAliveIsRight DEF SvsIInv, SvsDead, Svr!CallbacksSurvive

-----------------------------------------------------------------------------
(* TcpSvr in the composition.                                              *)
LEMMA SvrInits == Init => Svr!Init /\ SvrThreads!Init
BY DEF Init, Svr!Init, SvrThreads!Init, Svr!Idle, SvrThreads!Idle, Svr!NoClient,
   SvrThreads!NoClient, Svr!NoTable, SvrThreads!NoTable

SessionTableIInv ==
  /\ moves = "svr" => SvsIInv
  /\ moves = "svr_threads" => SvtIInv

(* TcpSvr.AcceptConn, ReceiveData, CloseSession, Stop: when callbacks do   *)
(* not overlap, the counter of sessions is the size of the table whenever  *)
(* nobody is at work, no more sessions are let in than the limit says, a   *)
(* client's connection is told before its end, and the only callback that  *)
(* dies is SendDataEnd, of a socket that has been closed or whose client   *)
(* has gone.  With callbacks on any threads, and an application that       *)
(* leaves its sessions alone, every session in the table has somebody who  *)
(* listens to it, and a socket that is open without a session was refused  *)
(* for want of room.                                                       *)
THEOREM SessionTableCorrect == Spec => []SessionTableRight
<1>1. Init => SessionTableIInv
  BY SvrInits, SvsInit, SvtInit DEF SessionTableIInv
<1>2. SessionTableIInv /\ [Next]_vars => SessionTableIInv'
  <2> SUFFICES ASSUME SessionTableIInv, [Next]_vars PROVE SessionTableIInv'
    OBVIOUS
  <2>1. moves' = moves
    BY DEF Next, vars, SvrMoves, CliMoves, ThreadsMove, SelectMoves, PacketMoves, AliveMoves
  <2>2. (moves = "svr" /\ Svr!Next) \/ (moves = "svr_threads" /\ SvrThreads!Next)
        \/ UNCHANGED svr
    BY DEF Next, vars, SvrMoves, CliMoves, ThreadsMove, SelectMoves, PacketMoves, AliveMoves
  <2>3. CASE moves = "svr"
    BY <2>1, <2>2, <2>3, SvsStep DEF SessionTableIInv
  <2>4. CASE moves = "svr_threads"
    BY <2>1, <2>2, <2>4, SvtStep DEF SessionTableIInv
  <2> QED
    BY <2>1, <2>3, <2>4 DEF SessionTableIInv
<1>3. SessionTableIInv => SessionTableRight
  BY SvsIsRight, SvtIsRight DEF SessionTableIInv, SessionTableRight
<1> QED
  BY <1>1, <1>2, <1>3, PTL DEF Spec

-----------------------------------------------------------------------------
(* TcpCli on threads, with a patient user.  The invariant is CltIInv: one  *)
(* connect is under way at most, and until its callback has taken the      *)
(* client online the client is offline and the main thread idle; so the    *)
(* session that Close takes apart is never one that is being made.         *)

CltMaking(s) == cli_sock[s] = "connecting" \/ connecting[s] \in {"flag", "event"}

CltIInv ==
  /\ session \in CliThreads!Sock \cup {0}
  /\ cli_sock \in [CliThreads!Sock -> {"none", "connecting", "open", "closed"}]
  /\ connecting \in [CliThreads!Sock -> {"idle", "flag", "event", "recv"}]
  /\ \A s, t \in CliThreads!UnderWay : s = t
  /\ \A s \in CliThreads!Sock : CltMaking(s) => cli_state = "Offline" /\ main = "idle"
  /\ \A s \in CliThreads!Sock :
       /\ connecting[s] \in {"flag", "event"} => session # 0
       /\ connecting[s] = "event" => isConnected
       /\ connecting[s] # "idle" => cli_sock[s] \in {"open", "closed"}
  /\ main = "idle" /\ cli_state = "Online" => isConnected /\ session # 0
  /\ main = "close" => isConnected /\ session # 0
  /\ main \in {"flag", "state"} => session = 0
  /\ main \in {"idle", "close"} /\ session # 0 => cli_sock[session] = "open"

LEMMA CltAssumed ==
  /\ MaxSockThreads \in Nat /\ CliThreads!Sock = 1..MaxSockThreads
  /\ CliThreads!Null = 0 /\ 0 \notin CliThreads!Sock
<1>1. MaxSockThreads \in Nat
  BY NetAssumed DEF NetAssumption, CliThreads!TcpCliAssumption
<1> QED
  BY <1>1 DEF CliThreads!Sock, CliThreads!Null

LEMMA CltInit == CliThreads!Init => CltIInv
<1> SUFFICES ASSUME CliThreads!Init PROVE CltIInv
  OBVIOUS
<1> USE CltAssumed
<1>1. /\ session = 0 /\ cli_state = "Offline" /\ main = "idle"
      /\ cli_sock = [s \in CliThreads!Sock |-> "none"]
      /\ connecting = [s \in CliThreads!Sock |-> "idle"]
  BY DEF CliThreads!Init
<1> QED
  BY <1>1 DEF CltIInv, CliThreads!UnderWay, CltMaking

LEMMA CltConnects ==
  ASSUME CltIInv, NEW s \in CliThreads!Sock, CliThreads!Connect(s)
  PROVE  CltIInv'
<1> USE CltAssumed DEF CliThreads!shared
<1>1. /\ main = "idle" /\ cli_state = "Offline" /\ cli_sock[s] = "none" /\ CliThreads!UnderWay = {}
      /\ cli_sock' = [cli_sock EXCEPT ![s] = "connecting"]
      /\ UNCHANGED <<session, isConnected, cli_state, connecting, main>>
  BY DEF CliThreads!Connect
<1> QED
  BY <1>1 DEF CltIInv, CliThreads!UnderWay, CltMaking

(* The callback Connected. *)
LEMMA CltConnected ==
  ASSUME CltIInv, NEW s \in CliThreads!Sock, CliThreads!Connected(s)
  PROVE  CltIInv'
<1> USE CltAssumed DEF CliThreads!shared, CliThreads!net, CliThreads!ConnectedGoes
<1>1. CASE CliThreads!Refused(s)
  <2>1. /\ cli_sock[s] = "connecting" /\ cli_sock' = [cli_sock EXCEPT ![s] = "closed"]
        /\ UNCHANGED <<session, isConnected, cli_state, connecting, main>>
    BY <1>1 DEF CliThreads!Refused
  <2> QED
    BY <2>1 DEF CltIInv, CliThreads!UnderWay, CltMaking
<1>2. CASE CliThreads!ConnectedSession(s)
  <2>1. /\ cli_sock[s] = "connecting" /\ cli_sock' = [cli_sock EXCEPT ![s] = "open"]
        /\ session' = s /\ connecting' = [connecting EXCEPT ![s] = "flag"]
        /\ UNCHANGED <<isConnected, cli_state, main>>
    BY <1>2 DEF CliThreads!ConnectedSession
  <2> QED
    BY <2>1 DEF CltIInv, CliThreads!UnderWay, CltMaking
<1>3. CASE CliThreads!ConnectedFlag(s)
  <2>1. /\ connecting[s] = "flag" /\ connecting' = [connecting EXCEPT ![s] = "event"]
        /\ isConnected' = TRUE /\ UNCHANGED <<session, cli_state, cli_sock, main>>
    BY <1>3 DEF CliThreads!ConnectedFlag
  <2> QED
    BY <2>1 DEF CltIInv, CliThreads!UnderWay, CltMaking
<1>4. CASE CliThreads!ConnectedEvent(s)
  <2>1. /\ connecting[s] = "event" /\ connecting' = [connecting EXCEPT ![s] = "recv"]
        /\ cli_state' = "Online" /\ UNCHANGED <<session, isConnected, cli_sock, main>>
    BY <1>4 DEF CliThreads!ConnectedEvent
  <2>2. s \in CliThreads!UnderWay /\ isConnected /\ session # 0 /\ cli_sock[s] # "none"
    BY <2>1 DEF CltIInv, CliThreads!UnderWay
  <2> QED
    BY <2>1, <2>2 DEF CltIInv, CliThreads!UnderWay, CltMaking
<1>5. CASE CliThreads!ConnectedReceive(s)
  <2>1. /\ connecting' = [connecting EXCEPT ![s] = "idle"]
        /\ UNCHANGED <<session, isConnected, cli_state, cli_sock, main>>
    BY <1>5 DEF CliThreads!ConnectedReceive
  <2> QED
    BY <2>1 DEF CltIInv, CliThreads!UnderWay, CltMaking
<1> QED
  BY <1>1, <1>2, <1>3, <1>4, <1>5 DEF CliThreads!Connected

(* Nothing else makes a connection: receives, sends, ends and a stutter    *)
(* leave all of it alone, but for an end that takes the client offline.    *)
LEMMA CltReceives ==
  ASSUME CltIInv, UNCHANGED <<session, isConnected, cli_sock, connecting, main>>,
         cli_state' \in {cli_state, "Offline"}
  PROVE  CltIInv'
BY DEF CltIInv, CliThreads!UnderWay, CltMaking

(* The main thread. *)
LEMMA CltCloses ==
  ASSUME CltIInv, CliThreads!PressDisconnect \/ CliThreads!Close
  PROVE  CltIInv'
<1> USE CltAssumed DEF CliThreads!shared, CliThreads!net
<1>1. CASE CliThreads!PressDisconnect
  <2>1. /\ main = "idle" /\ cli_state = "Online" /\ main' = IF isConnected THEN "close" ELSE "state"
        /\ UNCHANGED <<session, isConnected, cli_state, cli_sock, connecting>>
    BY <1>1 DEF CliThreads!PressDisconnect
  <2> QED
    BY <2>1 DEF CltIInv, CliThreads!UnderWay, CltMaking
<1>2. CASE CliThreads!CloseSocket
  <2>1. main = "close" /\ session \in CliThreads!Sock /\ cli_sock[session] = "open"
    BY <1>2 DEF CltIInv, CliThreads!CloseSocket
  <2>2. PICK s \in CliThreads!Sock : s = session
    BY <2>1
  <2>3. /\ main' = "null" /\ cli_sock' = [cli_sock EXCEPT ![s] = "closed"] /\ cli_sock[s] = "open"
        /\ UNCHANGED <<session, isConnected, cli_state, connecting>>
    BY <1>2, <2>1, <2>2 DEF CliThreads!CloseSocket
  <2> QED
    BY <2>1, <2>3 DEF CltIInv, CliThreads!UnderWay, CltMaking
<1>3. CASE CliThreads!CloseNull \/ CliThreads!CloseFlag \/ CliThreads!CloseState
  <2>1. /\ main \in {"null", "flag", "state"}
        /\ session' = 0 /\ UNCHANGED <<cli_sock, connecting>>
        /\ main' \in {"flag", "state"} \/ (main' = "idle" /\ cli_state' = "Offline")
    BY <1>3 DEF CltIInv, CliThreads!CloseNull, CliThreads!CloseFlag, CliThreads!CloseState
  <2> QED
    BY <2>1 DEF CltIInv, CliThreads!UnderWay, CltMaking
<1> QED
  BY <1>1, <1>2, <1>3 DEF CliThreads!Close

LEMMA CltStep == CltIInv /\ [CliThreads!Next]_cli => CltIInv'
<1> SUFFICES ASSUME CltIInv, [CliThreads!Next]_cli PROVE CltIInv'
  OBVIOUS
<1> USE DEF CliThreads!shared, CliThreads!net
<1>1. ASSUME NEW s \in CliThreads!Sock, CliThreads!RecvData(s) PROVE CltIInv'
  BY <1>1, CltReceives
     DEF CliThreads!RecvData, CliThreads!RecvBegin, CliThreads!RecvAdd, CliThreads!RecvRaise,
         CliThreads!RecvAgain, CliThreads!RecvEnd
<1>4. ASSUME NEW s \in CliThreads!Sock, CliThreads!Send \/ CliThreads!SendDataEnd(s)
      PROVE  CltIInv'
  BY <1>4, CltReceives DEF CliThreads!Send, CliThreads!SendDataEnd
<1>5. ASSUME CliThreads!Send PROVE CltIInv'
  BY <1>5, CltReceives DEF CliThreads!Send
<1>2. ASSUME NEW s \in CliThreads!Sock, NEW how, CliThreads!Ends(s, how) PROVE CltIInv'
  BY <1>2, CltReceives DEF CliThreads!Ends
<1>3. CASE UNCHANGED cli
  BY <1>3, CltReceives DEF cli
<1> QED
  BY <1>1, <1>2, <1>3, <1>4, <1>5, CltConnects, CltConnected, CltCloses DEF CliThreads!Next

LEMMA CltIsRight == CltIInv => CliThreads!OnlineHasSession
BY CltAssumed DEF CltIInv, CliThreads!OnlineHasSession

-----------------------------------------------------------------------------
(* TcpCli when calls and callbacks do not overlap.  The invariant ClsIInv  *)
(* has three parts: ClsBase, the types and the sockets that a receive, a   *)
(* session or a callback can be on; ClsPosted, that every receive posted   *)
(* or being served stems from a connect of its own, which is what bounds   *)
(* them; and, as long as no two connects have been under way at once,      *)
(* ClsAlone: the connection is at rest, being made, receiving or being     *)
(* closed, and its session, flag, state and receive are those of the place.*)

ClsTypes ==
  /\ session \in Cli!Sock \cup {0} /\ isConnected \in BOOLEAN
  /\ cli_state \in {"Offline", "Online"}
  /\ main \in {"idle", "close", "null", "flag", "state"}
  /\ overlapped \in BOOLEAN /\ mixed \in BOOLEAN
  /\ dead \in {"no", "refused", "failed", "argument", "no session", "send"}
ClsMaps ==
  /\ cli_sock \in [Cli!Sock -> {"none", "connecting", "open", "closed"}]
  /\ cli_remote \in [Cli!Sock -> {"open", "shut", "reset", "failed"}]
  /\ posted \in [Cli!Sock \X Cli!Sock -> Nat] /\ cli_sends \in [Cli!Sock -> 0..MaxSend]
  /\ connecting \in [Cli!Sock -> {"idle", "flag", "event", "recv"}]
  /\ receiving \in [Cli!Sock -> {"idle", "add", "raise", "again", "end"}]
ClsSocks ==
  /\ session # 0 => cli_sock[session] \in {"open", "closed"}
  /\ \A s \in Cli!Sock : connecting[s] # "idle" => cli_sock[s] \in {"open", "closed"}
  /\ \A s, t \in Cli!Sock : posted[<<s, t>>] > 0 => cli_sock[s] \in {"open", "closed"}
ClsOne == \A s, t \in Cli!Sock : receiving[s] # "idle" /\ receiving[t] # "idle" => s = t
ClsBase == ClsTypes /\ ClsMaps /\ ClsSocks /\ ClsOne

(* The connect t is the origin of the receive from[t], or of the one that  *)
(* is being served, or of none any more.                                   *)
ClsOrigins(from, has, p) == {t \in Cli!Sock : has[t] = "posted" /\ from[t] = p}
ClsPostedBy(from, has) ==
  /\ \A t \in Cli!Sock :
       cli_sock[t] \in {"none", "connecting"} \/ connecting[t] # "idle" => has[t] = "none"
  /\ \A p \in Cli!Sock \X Cli!Sock : posted[p] = Cardinality(ClsOrigins(from, has, p))
  /\ \A s \in Cli!Sock :
       receiving[s] \in {"add", "raise", "again"} => \E t \in Cli!Sock : has[t] = "served"
ClsPosted ==
  \E from \in [Cli!Sock -> Cli!Sock \X Cli!Sock],
     has \in [Cli!Sock -> {"none", "posted", "served"}] : ClsPostedBy(from, has)

LEMMA ClsAssumed ==
  /\ MaxSock \in Nat /\ Cli!Sock = 1..MaxSock /\ Cli!Null = 0 /\ 0 \notin Cli!Sock
  /\ IsFiniteSet(Cli!Sock) /\ Cardinality(Cli!Sock) = MaxSock /\ MaxSend \in Nat
<1>1. MaxSock \in Nat /\ MaxSend \in Nat
  BY NetAssumed DEF NetAssumption, Cli!TcpCliAssumption
<1>2. Cli!Sock = 1..MaxSock /\ Cli!Null = 0 /\ 0 \notin Cli!Sock
  BY <1>1 DEF Cli!Sock, Cli!Null
<1>3. IsFiniteSet(1..MaxSock) /\ Cardinality(1..MaxSock) = MaxSock
  BY <1>1, FS_Interval
<1> QED
  BY <1>1, <1>2, <1>3

LEMMA ClsQuietly ==
  ASSUME Cli!MayBegin
  PROVE  /\ dead = "no" /\ main = "idle"
         /\ \A s \in Cli!Sock : connecting[s] = "idle" /\ receiving[s] = "idle"
BY DEF Cli!MayBegin, Cli!Quiet

-----------------------------------------------------------------------------
LEMMA ClsBaseRecvBegin ==
  ASSUME ClsBase, NEW s \in Cli!Sock, NEW t \in Cli!Sock, Cli!RecvBegin(s, t)
  PROVE  /\ posted[<<s, t>>] > 0 /\ posted[<<s, t>>] \in Nat
         /\ posted' = [posted EXCEPT ![<<s, t>>] = @ - 1]
         /\ posted' \in [Cli!Sock \X Cli!Sock -> Nat]
         /\ \A r \in Cli!Sock : connecting[r] = "idle" /\ receiving[r] = "idle"
         /\ dead = "no" /\ main = "idle"
         /\ UNCHANGED <<session, isConnected, cli_state, cli_sock, cli_remote, cli_sends,
                        connecting, main, overlapped, mixed>>
         /\ \/ s # t /\ dead' = "argument" /\ receiving' = receiving
            \/ s = t /\ cli_sock[s] = "closed" /\ dead' = "no" /\ receiving' = receiving
            \/ s = t /\ cli_sock[s] = "open" /\ cli_remote[s] = "failed" /\ dead' = "failed"
                 /\ receiving' = receiving
            \/ s = t /\ cli_sock[s] = "open" /\ cli_remote[s] = "open" /\ dead' = "no"
                 /\ receiving' = [receiving EXCEPT ![s] = "add"]
            \/ s = t /\ cli_sock[s] = "open" /\ cli_remote[s] \in {"shut", "reset"} /\ dead' = "no"
                 /\ receiving' = [receiving EXCEPT ![s] = "end"]
<1> USE DEF Cli!RecvBegin, Cli!shared
<1>1. /\ posted[<<s, t>>] > 0 /\ posted' = [posted EXCEPT ![<<s, t>>] = @ - 1]
      /\ \A r \in Cli!Sock : connecting[r] = "idle" /\ receiving[r] = "idle"
      /\ dead = "no" /\ main = "idle"
      /\ UNCHANGED <<session, isConnected, cli_state, cli_sock, cli_remote, cli_sends,
                     connecting, main, overlapped, mixed>>
  BY ClsQuietly
<1>2. posted[<<s, t>>] \in Nat /\ posted[<<s, t>>] - 1 \in Nat
  BY <1>1 DEF ClsBase, ClsMaps
<1>3. posted' \in [Cli!Sock \X Cli!Sock -> Nat]
  BY <1>1, <1>2 DEF ClsBase, ClsMaps
<1>4. cli_sock[s] \in {"open", "closed"} /\ cli_remote[s] \in {"open", "shut", "reset", "failed"}
  BY <1>1 DEF ClsBase, ClsMaps, ClsSocks
<1>5. CASE s # t
  BY <1>1, <1>2, <1>3, <1>5
<1>6. CASE s = t /\ cli_sock[s] = "closed"
  BY <1>1, <1>2, <1>3, <1>6
<1>7. CASE s = t /\ cli_sock[s] = "open" /\ cli_remote[s] = "failed"
  BY <1>1, <1>2, <1>3, <1>7
<1>8. CASE s = t /\ cli_sock[s] = "open" /\ cli_remote[s] = "open"
  BY <1>1, <1>2, <1>3, <1>8 DEF Cli!ReceivingGoes
<1>9. CASE s = t /\ cli_sock[s] = "open" /\ cli_remote[s] \in {"shut", "reset"}
  BY <1>1, <1>2, <1>3, <1>9 DEF Cli!ReceivingGoes
<1> QED
  BY <1>4, <1>5, <1>6, <1>7, <1>8, <1>9

(* A receive more on one socket. *)
LEMMA ClsPosts ==
  ASSUME posted \in [Cli!Sock \X Cli!Sock -> Nat], NEW s \in Cli!Sock, NEW t \in Cli!Sock,
         posted' = [posted EXCEPT ![<<s, t>>] = @ + 1]
  PROVE  /\ posted' \in [Cli!Sock \X Cli!Sock -> Nat]
         /\ posted'[<<s, t>>] = posted[<<s, t>>] + 1
         /\ \A p \in Cli!Sock \X Cli!Sock : p # <<s, t>> => posted'[p] = posted[p]
OBVIOUS

LEMMA ClsBaseConnects ==
  ASSUME ClsBase, NEW s \in Cli!Sock, Cli!Connect(s) \/ Cli!Connected(s)
  PROVE  ClsBase'
<1> USE ClsAssumed DEF Cli!shared, Cli!net, Cli!ConnectedGoes
<1>1. CASE Cli!Connect(s)
  <2>1. ClsTypes'
    BY <1>1 DEF Cli!Connect, ClsBase, ClsTypes
  <2>2. ClsMaps'
    BY <1>1 DEF Cli!Connect, ClsBase, ClsMaps
  <2>3. ClsSocks'
    BY <1>1 DEF Cli!Connect, ClsBase, ClsTypes, ClsMaps, ClsSocks
  <2>4. ClsOne'
    BY <1>1 DEF Cli!Connect, ClsBase, ClsMaps, ClsOne
  <2> QED
    BY <2>1, <2>2, <2>3, <2>4 DEF ClsBase
<1>2. CASE Cli!Refused(s)
  <2>1. ClsTypes'
    BY <1>2 DEF Cli!Refused, ClsBase, ClsTypes
  <2>2. ClsMaps'
    BY <1>2 DEF Cli!Refused, ClsBase, ClsMaps
  <2>3. ClsSocks'
    BY <1>2 DEF Cli!Refused, ClsBase, ClsTypes, ClsMaps, ClsSocks
  <2>4. ClsOne'
    BY <1>2 DEF Cli!Refused, ClsBase, ClsMaps, ClsOne
  <2> QED
    BY <2>1, <2>2, <2>3, <2>4 DEF ClsBase
<1>3. CASE Cli!ConnectedSession(s)
  <2>1. ClsTypes'
    BY <1>3 DEF Cli!ConnectedSession, ClsBase, ClsTypes
  <2>2. ClsMaps'
    BY <1>3 DEF Cli!ConnectedSession, ClsBase, ClsMaps
  <2>3. ClsSocks'
    BY <1>3 DEF Cli!ConnectedSession, ClsBase, ClsTypes, ClsMaps, ClsSocks
  <2>4. ClsOne'
    BY <1>3 DEF Cli!ConnectedSession, ClsBase, ClsMaps, ClsOne
  <2> QED
    BY <2>1, <2>2, <2>3, <2>4 DEF ClsBase
<1>4. CASE Cli!ConnectedFlag(s)
  <2>1. ClsTypes'
    BY <1>4 DEF Cli!ConnectedFlag, ClsBase, ClsTypes
  <2>2. ClsMaps'
    BY <1>4 DEF Cli!ConnectedFlag, ClsBase, ClsMaps
  <2>3. ClsSocks'
    BY <1>4 DEF Cli!ConnectedFlag, ClsBase, ClsTypes, ClsMaps, ClsSocks
  <2>4. ClsOne'
    BY <1>4 DEF Cli!ConnectedFlag, ClsBase, ClsMaps, ClsOne
  <2> QED
    BY <2>1, <2>2, <2>3, <2>4 DEF ClsBase
<1>5. CASE Cli!ConnectedEvent(s)
  <2>1. ClsTypes'
    BY <1>5 DEF Cli!ConnectedEvent, ClsBase, ClsTypes
  <2>2. ClsMaps'
    BY <1>5 DEF Cli!ConnectedEvent, ClsBase, ClsMaps
  <2>3. ClsSocks'
    BY <1>5 DEF Cli!ConnectedEvent, ClsBase, ClsTypes, ClsMaps, ClsSocks
  <2>4. ClsOne'
    BY <1>5 DEF Cli!ConnectedEvent, ClsBase, ClsMaps, ClsOne
  <2> QED
    BY <2>1, <2>2, <2>3, <2>4 DEF ClsBase
<1>6. CASE Cli!ConnectedReceive(s)
  <2>1. /\ connecting' = [connecting EXCEPT ![s] = "idle"]
        /\ UNCHANGED <<session, isConnected, cli_state, cli_sock, cli_remote, cli_sends,
                       receiving, main, overlapped, mixed>>
    BY <1>6 DEF Cli!ConnectedReceive
  <2>2. CASE session = 0 \/ cli_sock[session] = "closed"
    <3>1. dead' = "no session" /\ posted' = posted
      BY <1>6, <2>2 DEF Cli!ConnectedReceive
    <3> QED
      <4>1. ClsTypes'
        BY <2>1, <3>1 DEF ClsBase, ClsTypes
      <4>2. ClsMaps'
        BY <2>1, <3>1 DEF ClsBase, ClsMaps
      <4>3. ClsSocks'
        BY <2>1, <3>1 DEF ClsBase, ClsTypes, ClsMaps, ClsSocks
      <4>4. ClsOne'
        BY <2>1, <3>1 DEF ClsBase, ClsMaps, ClsOne
      <4> QED
        BY <4>1, <4>2, <4>3, <4>4 DEF ClsBase
  <2>3. CASE ~(session = 0 \/ cli_sock[session] = "closed")
    <3>1. dead' = dead /\ posted' = [posted EXCEPT ![<<session, s>>] = @ + 1]
      BY <1>6, <2>3 DEF Cli!ConnectedReceive
    <3>2. PICK r \in Cli!Sock : r = session
      BY <2>3 DEF ClsBase, ClsTypes, ClsMaps, ClsSocks
    <3>3. /\ posted' \in [Cli!Sock \X Cli!Sock -> Nat]
          /\ \A q, t \in Cli!Sock : posted'[<<q, t>>] > 0 => posted[<<q, t>>] > 0 \/ q = r
      <4>1. posted' = [posted EXCEPT ![<<r, s>>] = @ + 1]
        BY <3>1, <3>2
      <4>2. posted \in [Cli!Sock \X Cli!Sock -> Nat]
        BY DEF ClsBase, ClsMaps
      <4> QED
        BY <4>1, <4>2, ClsPosts
    <3>4. cli_sock[r] \in {"open", "closed"}
      BY <3>2 DEF ClsBase, ClsTypes, ClsMaps, ClsSocks
    <3> QED
      <4>1. ClsTypes'
        BY <2>1, <3>1, <3>3, <3>4 DEF ClsBase, ClsTypes
      <4>2. ClsMaps'
        BY <2>1, <3>1, <3>3, <3>4 DEF ClsBase, ClsMaps
      <4>3. ClsSocks'
        BY <2>1, <3>1, <3>3, <3>4 DEF ClsBase, ClsTypes, ClsMaps, ClsSocks
      <4>4. ClsOne'
        BY <2>1, <3>1, <3>3, <3>4 DEF ClsBase, ClsMaps, ClsOne
      <4> QED
        BY <4>1, <4>2, <4>3, <4>4 DEF ClsBase
  <2> QED
    BY <2>2, <2>3
<1> QED
  BY <1>1, <1>2, <1>3, <1>4, <1>5, <1>6 DEF Cli!Connected

(* A callback RecvData that is at work goes on or ends. *)
LEMMA ClsGoesOn ==
  ASSUME ClsBase, NEW s \in Cli!Sock, receiving[s] # "idle",
         \E place \in {"raise", "again", "idle", "end"} :
           receiving' = receiving \/ receiving' = [receiving EXCEPT ![s] = place]
  PROVE  ClsOne'
BY DEF ClsBase, ClsMaps, ClsOne

(* One send more under way on the session's socket.                        *)
LEMMA ClsSendsMore ==
  ASSUME cli_sends \in [Cli!Sock -> 0..MaxSend], session \in Cli!Sock,
         cli_sends[session] < MaxSend,
         cli_sends' = [cli_sends EXCEPT ![session] = @ + 1]
  PROVE  cli_sends' \in [Cli!Sock -> 0..MaxSend]
<1>1. cli_sends[session] + 1 \in 0..MaxSend
  BY ClsAssumed
<1> QED
  BY <1>1

LEMMA ClsBaseSends ==
  ASSUME ClsBase, Cli!Send \/ \E s \in Cli!Sock : Cli!SendDataEnd(s)
  PROVE  ClsBase'
<1> USE ClsAssumed DEF Cli!shared
<1>1. /\ UNCHANGED <<session, isConnected, cli_state, cli_sock, cli_remote, posted, connecting,
                     receiving, main, overlapped, mixed>>
      /\ dead' \in {dead, "send"}
  BY DEF Cli!Send, Cli!SendDataEnd
<1>2. cli_sends \in [Cli!Sock -> 0..MaxSend]
  BY DEF ClsBase, ClsMaps
<1>3. cli_sends' \in [Cli!Sock -> 0..MaxSend]
  <2>1. CASE Cli!Send
    BY <1>2, <2>1, ClsSendsMore DEF Cli!Send, ClsBase, ClsTypes
  <2>2. ASSUME NEW s \in Cli!Sock, Cli!SendDataEnd(s)
        PROVE  cli_sends' \in [Cli!Sock -> 0..MaxSend]
    <3>1. cli_sends[s] - 1 \in 0..MaxSend /\ cli_sends' = [cli_sends EXCEPT ![s] = @ - 1]
      BY <1>2, <2>2 DEF Cli!SendDataEnd
    <3> QED
      BY <1>2, <3>1
  <2> QED
    BY <2>1, <2>2
<1>4. ClsTypes'
  BY <1>1 DEF ClsBase, ClsTypes
<1>5. ClsMaps'
  BY <1>1, <1>3 DEF ClsBase, ClsMaps
<1>6. ClsSocks' /\ ClsOne'
  BY <1>1 DEF ClsBase, ClsSocks, ClsOne
<1> QED
  BY <1>4, <1>5, <1>6 DEF ClsBase

LEMMA ClsBaseReceives ==
  ASSUME ClsBase, NEW s \in Cli!Sock, Cli!RecvData(s)
  PROVE  ClsBase'
<1> USE ClsAssumed DEF Cli!shared, Cli!net, Cli!ReceivingGoes
<1>1. ASSUME NEW t \in Cli!Sock, Cli!RecvBegin(s, t) PROVE ClsBase'
  <2>1. /\ posted' \in [Cli!Sock \X Cli!Sock -> Nat] /\ posted[<<s, t>>] > 0
        /\ \A q \in Cli!Sock : receiving[q] = "idle"
        /\ \E place \in {"idle", "add", "end"} : receiving' = [receiving EXCEPT ![s] = place]
        /\ dead' \in {"no", "argument", "failed"}
        /\ UNCHANGED <<session, isConnected, cli_state, cli_sock, cli_remote, cli_sends,
                       connecting, main, overlapped, mixed>>
    <3>1. receiving = [receiving EXCEPT ![s] = "idle"]
      BY <1>1, ClsBaseRecvBegin DEF ClsBase, ClsTypes, ClsMaps, ClsSocks
    <3> QED
      BY <1>1, <3>1, ClsBaseRecvBegin
  <2>2. \A q, r \in Cli!Sock : posted'[<<q, r>>] > 0 => posted[<<q, r>>] > 0
    <3>1. posted[<<s, t>>] \in Nat /\ posted' = [posted EXCEPT ![<<s, t>>] = @ - 1]
          /\ posted \in [Cli!Sock \X Cli!Sock -> Nat]
      BY <1>1, ClsBaseRecvBegin DEF ClsBase, ClsTypes, ClsMaps, ClsSocks
    <3>2. \A p \in Cli!Sock \X Cli!Sock : p # <<s, t>> => posted'[p] = posted[p]
      BY <3>1
    <3> QED
      BY <2>1, <3>2
  <2> QED
    <3>1. ClsTypes'
      BY <2>1, <2>2 DEF ClsBase, ClsTypes
    <3>2. ClsMaps'
      BY <2>1, <2>2 DEF ClsBase, ClsMaps
    <3>3. ClsSocks'
      BY <2>1, <2>2 DEF ClsBase, ClsTypes, ClsMaps, ClsSocks
    <3>4. ClsOne'
      BY <2>1, <2>2 DEF ClsBase, ClsMaps, ClsOne
    <3> QED
      BY <3>1, <3>2, <3>3, <3>4 DEF ClsBase
<1>2. CASE Cli!RecvAdd(s)
  <2>1. ClsTypes'
    BY <1>2 DEF Cli!RecvAdd, ClsBase, ClsTypes
  <2>2. ClsMaps'
    BY <1>2 DEF Cli!RecvAdd, ClsBase, ClsMaps
  <2>3. ClsSocks'
    BY <1>2 DEF Cli!RecvAdd, ClsBase, ClsTypes, ClsMaps, ClsSocks
  <2>4. ClsOne'
    BY <1>2, ClsGoesOn DEF Cli!RecvAdd
  <2> QED
    BY <2>1, <2>2, <2>3, <2>4 DEF ClsBase
<1>3. CASE Cli!RecvRaise(s)
  <2>0. /\ UNCHANGED <<session, isConnected, cli_state, cli_sock, cli_remote, posted, connecting,
                       main, overlapped, mixed>>
        /\ dead' \in {dead, "no session", "failed"}
        /\ \E place \in {"again", "idle", "end"} :
             receiving' = receiving \/ receiving' = [receiving EXCEPT ![s] = place]
        /\ receiving[s] = "raise"
    BY <1>3 DEF Cli!RecvRaise, Cli!Answers
  <2>1. ClsTypes'
    BY <2>0 DEF ClsBase, ClsTypes
  <2>2. ClsMaps'
    <3>1. cli_sends' \in [Cli!Sock -> 0..MaxSend]
      BY <1>3, ClsSendsMore DEF Cli!RecvRaise, Cli!Answers, ClsBase, ClsTypes, ClsMaps
    <3> QED
      BY <2>0, <3>1 DEF ClsBase, ClsMaps
  <2>3. ClsSocks'
    BY <2>0 DEF ClsBase, ClsTypes, ClsMaps, ClsSocks
  <2>4. ClsOne'
    BY <2>0, ClsGoesOn
  <2> QED
    BY <2>1, <2>2, <2>3, <2>4 DEF ClsBase
<1>4. CASE Cli!RecvEnd(s)
  <2>1. ClsTypes'
    BY <1>4 DEF Cli!RecvEnd, ClsBase, ClsTypes
  <2>2. ClsMaps'
    BY <1>4 DEF Cli!RecvEnd, ClsBase, ClsMaps
  <2>3. ClsSocks'
    BY <1>4 DEF Cli!RecvEnd, ClsBase, ClsTypes, ClsMaps, ClsSocks
  <2>4. ClsOne'
    BY <1>4, ClsGoesOn DEF Cli!RecvEnd
  <2> QED
    BY <2>1, <2>2, <2>3, <2>4 DEF ClsBase
<1>5. CASE Cli!RecvAgain(s)
  <2>1. /\ UNCHANGED <<session, isConnected, cli_state, cli_sock, cli_remote, cli_sends,
                       connecting, main, overlapped, mixed>>
        /\ dead' \in {dead, "no session"}
        /\ receiving' \in {receiving, [receiving EXCEPT ![s] = "idle"]}
    BY <1>5 DEF Cli!RecvAgain
  <2>0. receiving[s] = "again"
    BY <1>5 DEF Cli!RecvAgain
  <2>2. CASE posted' = posted
    <3>1. ClsTypes'
      BY <2>1, <2>2 DEF ClsBase, ClsTypes
    <3>2. ClsMaps'
      BY <2>1, <2>2 DEF ClsBase, ClsMaps
    <3>3. ClsSocks'
      BY <2>1, <2>2 DEF ClsBase, ClsTypes, ClsMaps, ClsSocks
    <3>4. ClsOne'
      BY <2>1, <2>0, ClsGoesOn
    <3> QED
      BY <3>1, <3>2, <3>3, <3>4 DEF ClsBase
  <2>3. CASE posted' # posted
    <3>1. PICK r \in Cli!Sock : r = session
      BY <1>5, <2>3 DEF ClsBase, Cli!RecvAgain, ClsTypes, ClsMaps, ClsSocks
    <3>2. /\ posted' = [posted EXCEPT ![<<r, r>>] = @ + 1]
          /\ cli_sock[r] \in {"open", "closed"}
          /\ posted \in [Cli!Sock \X Cli!Sock -> Nat]
      BY <1>5, <2>3, <3>1 DEF ClsBase, Cli!RecvAgain, ClsTypes, ClsMaps, ClsSocks
    <3>3. /\ posted' \in [Cli!Sock \X Cli!Sock -> Nat]
          /\ \A q, t \in Cli!Sock : posted'[<<q, t>>] > 0 => posted[<<q, t>>] > 0 \/ q = r
      BY <3>2, ClsPosts
    <3> QED
      <4>1. ClsTypes'
        BY <2>1, <3>2, <3>3 DEF ClsBase, ClsTypes
      <4>2. ClsMaps'
        BY <2>1, <3>2, <3>3 DEF ClsBase, ClsMaps
      <4>3. ClsSocks'
        BY <2>1, <3>2, <3>3 DEF ClsBase, ClsTypes, ClsMaps, ClsSocks
      <4>4. ClsOne'
        BY <2>1, <2>0, ClsGoesOn
      <4> QED
        BY <4>1, <4>2, <4>3, <4>4 DEF ClsBase
  <2> QED
    BY <2>2, <2>3
<1> QED
  BY <1>1, <1>2, <1>3, <1>4, <1>5 DEF Cli!RecvData

LEMMA ClsBaseCloses ==
  ASSUME ClsBase, Cli!PressDisconnect \/ Cli!Close
  PROVE  ClsBase'
<1> USE ClsAssumed DEF Cli!shared, Cli!net
<1>1. CASE Cli!CloseSocket
  <2>1. CASE session = 0 \/ cli_sock[session] = "closed"
    <3>1. ClsTypes'
      BY <1>1, <2>1 DEF Cli!CloseSocket, ClsBase, ClsTypes
    <3>2. ClsMaps'
      BY <1>1, <2>1 DEF Cli!CloseSocket, ClsBase, ClsMaps
    <3>3. ClsSocks'
      BY <1>1, <2>1 DEF Cli!CloseSocket, ClsBase, ClsTypes, ClsMaps, ClsSocks
    <3>4. ClsOne'
      BY <1>1, <2>1 DEF Cli!CloseSocket, ClsBase, ClsMaps, ClsOne
    <3> QED
      BY <3>1, <3>2, <3>3, <3>4 DEF ClsBase
  <2>2. CASE ~(session = 0 \/ cli_sock[session] = "closed")
    <3>1. PICK r \in Cli!Sock : r = session
      BY <2>2 DEF ClsBase, ClsTypes, ClsMaps, ClsSocks
    <3>2. /\ cli_sock' = [cli_sock EXCEPT ![r] = "closed"] /\ main' = "null"
          /\ UNCHANGED <<session, isConnected, cli_state, cli_remote, posted, cli_sends,
                         connecting, receiving, overlapped, mixed, dead>>
      BY <1>1, <2>2, <3>1 DEF Cli!CloseSocket
    <3> QED
      <4>1. ClsTypes'
        BY <3>2 DEF ClsBase, ClsTypes
      <4>2. ClsMaps'
        BY <3>2 DEF ClsBase, ClsMaps
      <4>3. ClsSocks'
        BY <3>2 DEF ClsBase, ClsTypes, ClsMaps, ClsSocks
      <4>4. ClsOne'
        BY <3>2 DEF ClsBase, ClsMaps, ClsOne
      <4> QED
        BY <4>1, <4>2, <4>3, <4>4 DEF ClsBase
  <2> QED
    BY <2>1, <2>2
<1>2. CASE ~ Cli!CloseSocket
  <2>1. /\ session' \in {session, 0} /\ isConnected' \in {isConnected, FALSE}
        /\ cli_state' \in {cli_state, "Offline"}
        /\ main' \in {"idle", "close", "null", "flag", "state"}
        /\ UNCHANGED <<cli_sock, cli_remote, posted, cli_sends, connecting, receiving, overlapped,
                       mixed, dead>>
    BY <1>2 DEF Cli!PressDisconnect, Cli!Close, Cli!CloseNull, Cli!CloseFlag, Cli!CloseState
  <2> QED
    <3>1. ClsTypes'
      BY <2>1 DEF ClsBase, ClsTypes
    <3>2. ClsMaps'
      BY <2>1 DEF ClsBase, ClsMaps
    <3>3. ClsSocks'
      BY <2>1 DEF ClsBase, ClsTypes, ClsMaps, ClsSocks
    <3>4. ClsOne'
      BY <2>1 DEF ClsBase, ClsMaps, ClsOne
    <3> QED
      BY <3>1, <3>2, <3>3, <3>4 DEF ClsBase
<1> QED
  BY <1>1, <1>2

LEMMA ClsBaseStep == ClsBase /\ [Cli!Next]_cli => ClsBase'
<1> SUFFICES ASSUME ClsBase, [Cli!Next]_cli PROVE ClsBase'
  OBVIOUS
<1>1. ASSUME NEW s \in Cli!Sock, NEW how \in {"shut", "reset", "failed"}, Cli!Ends(s, how)
      PROVE  ClsBase'
  <2>1. ClsTypes'
    BY <1>1 DEF Cli!Ends, Cli!shared, ClsBase, ClsTypes
  <2>2. ClsMaps'
    BY <1>1 DEF Cli!Ends, Cli!shared, ClsBase, ClsMaps
  <2>3. ClsSocks'
    BY <1>1 DEF Cli!Ends, Cli!shared, ClsBase, ClsTypes, ClsMaps, ClsSocks
  <2>4. ClsOne'
    BY <1>1 DEF Cli!Ends, Cli!shared, ClsBase, ClsMaps, ClsOne
  <2> QED
    BY <2>1, <2>2, <2>3, <2>4 DEF ClsBase
<1>2. CASE UNCHANGED cli
  <2>1. ClsTypes'
    BY <1>2 DEF cli, ClsBase, ClsTypes
  <2>2. ClsMaps'
    BY <1>2 DEF cli, ClsBase, ClsMaps
  <2>3. ClsSocks'
    BY <1>2 DEF cli, ClsBase, ClsTypes, ClsMaps, ClsSocks
  <2>4. ClsOne'
    BY <1>2 DEF cli, ClsBase, ClsMaps, ClsOne
  <2> QED
    BY <2>1, <2>2, <2>3, <2>4 DEF ClsBase
<1> QED
  BY <1>1, <1>2, ClsBaseConnects, ClsBaseReceives, ClsBaseCloses, ClsBaseSends DEF Cli!Next

-----------------------------------------------------------------------------
(* One origin more, and one less.                                          *)
ClsMore(from, has, t, p, from2, has2) ==
  /\ has[t] # "posted"
  /\ from2 = [from EXCEPT ![t] = p] /\ has2 = [has EXCEPT ![t] = "posted"]
ClsLess(from, has, t, p, has2, place) ==
  has[t] = "posted" /\ p = from[t] /\ has2 = [has EXCEPT ![t] = place]

LEMMA ClsOriginsMore ==
  ASSUME NEW from \in [Cli!Sock -> Cli!Sock \X Cli!Sock],
         NEW has \in [Cli!Sock -> {"none", "posted", "served"}],
         NEW t \in Cli!Sock, NEW p \in Cli!Sock \X Cli!Sock, NEW from2, NEW has2,
         ClsMore(from, has, t, p, from2, has2)
  PROVE  /\ from2 \in [Cli!Sock -> Cli!Sock \X Cli!Sock]
         /\ has2 \in [Cli!Sock -> {"none", "posted", "served"}]
         /\ has2[t] = "posted" /\ \A r \in Cli!Sock : r # t => has2[r] = has[r]
         /\ Cardinality(ClsOrigins(from2, has2, p)) = Cardinality(ClsOrigins(from, has, p)) + 1
         /\ \A q \in Cli!Sock \X Cli!Sock :
              q # p => ClsOrigins(from2, has2, q) = ClsOrigins(from, has, q)
<1>1. from2 \in [Cli!Sock -> Cli!Sock \X Cli!Sock] /\ has2 \in [Cli!Sock -> {"none", "posted", "served"}]
  BY DEF ClsMore
<1>2. /\ from2[t] = p /\ has2[t] = "posted"
      /\ \A r \in Cli!Sock : r # t => from2[r] = from[r] /\ has2[r] = has[r]
  BY DEF ClsMore
<1>0. has[t] # "posted"
  BY DEF ClsMore
<1>3. ClsOrigins(from2, has2, p) = ClsOrigins(from, has, p) \cup {t} /\ t \notin ClsOrigins(from, has, p)
  BY <1>2, <1>0 DEF ClsOrigins
<1>4. \A q \in Cli!Sock \X Cli!Sock :
        q # p => ClsOrigins(from2, has2, q) = ClsOrigins(from, has, q)
  BY <1>2, <1>0 DEF ClsOrigins
<1>5. IsFiniteSet(ClsOrigins(from, has, p))
  <2>1. ClsOrigins(from, has, p) \subseteq Cli!Sock
    BY DEF ClsOrigins
  <2> QED
    BY <2>1, ClsAssumed, FS_Subset
<1>6. Cardinality(ClsOrigins(from2, has2, p)) = Cardinality(ClsOrigins(from, has, p)) + 1
  BY <1>3, <1>5, FS_AddElement
<1> QED
  BY <1>1, <1>2, <1>4, <1>6

LEMMA ClsOriginsLess ==
  ASSUME NEW from \in [Cli!Sock -> Cli!Sock \X Cli!Sock],
         NEW has \in [Cli!Sock -> {"none", "posted", "served"}],
         NEW t \in Cli!Sock, NEW p \in Cli!Sock \X Cli!Sock, NEW has2, NEW place \in {"none", "served"},
         ClsLess(from, has, t, p, has2, place)
  PROVE  /\ has2 \in [Cli!Sock -> {"none", "posted", "served"}]
         /\ has2[t] = place /\ \A r \in Cli!Sock : r # t => has2[r] = has[r]
         /\ Cardinality(ClsOrigins(from, has2, p)) = Cardinality(ClsOrigins(from, has, p)) - 1
         /\ \A q \in Cli!Sock \X Cli!Sock :
              q # p => ClsOrigins(from, has2, q) = ClsOrigins(from, has, q)
<1>1. has2 \in [Cli!Sock -> {"none", "posted", "served"}]
  BY DEF ClsLess
<1>2. has2[t] = place /\ \A r \in Cli!Sock : r # t => has2[r] = has[r]
  BY DEF ClsLess
<1>0. has[t] = "posted" /\ from[t] = p
  BY DEF ClsLess
<1>3. ClsOrigins(from, has2, p) = ClsOrigins(from, has, p) \ {t} /\ t \in ClsOrigins(from, has, p)
  BY <1>2, <1>0 DEF ClsOrigins
<1>4. \A q \in Cli!Sock \X Cli!Sock :
        q # p => ClsOrigins(from, has2, q) = ClsOrigins(from, has, q)
  BY <1>2, <1>0 DEF ClsOrigins
<1>5. IsFiniteSet(ClsOrigins(from, has, p))
  <2>1. ClsOrigins(from, has, p) \subseteq Cli!Sock
    BY DEF ClsOrigins
  <2> QED
    BY <2>1, ClsAssumed, FS_Subset
<1>6. Cardinality(ClsOrigins(from, has2, p)) = Cardinality(ClsOrigins(from, has, p)) - 1
  BY <1>3, <1>5, FS_RemoveElement
<1> QED
  BY <1>1, <1>2, <1>4, <1>6

LEMMA ClsPostedKept ==
  ASSUME ClsPosted, posted' = posted,
         \A t \in Cli!Sock :
           cli_sock'[t] \in {"none", "connecting"} \/ connecting'[t] # "idle" =>
             cli_sock[t] \in {"none", "connecting"} \/ connecting[t] # "idle",
         \A s \in Cli!Sock :
           receiving'[s] \in {"add", "raise", "again"} =>
             \E r \in Cli!Sock : receiving[r] \in {"add", "raise", "again"}
  PROVE  ClsPosted'
<1>1. PICK from \in [Cli!Sock -> Cli!Sock \X Cli!Sock],
           has \in [Cli!Sock -> {"none", "posted", "served"}] : ClsPostedBy(from, has)
  BY DEF ClsPosted
<1>2. ClsPostedBy(from, has)'
  BY <1>1 DEF ClsPostedBy, ClsOrigins
<1> QED
  BY <1>2 DEF ClsPosted

(* The first receive of a connection. *)
LEMMA ClsPostedFirst ==
  ASSUME ClsBase, ClsPosted, NEW s \in Cli!Sock, Cli!ConnectedReceive(s)
  PROVE  ClsPosted'
<1> USE ClsAssumed DEF Cli!shared, Cli!ConnectedGoes
<1>0. /\ connecting[s] = "recv" /\ connecting' = [connecting EXCEPT ![s] = "idle"]
      /\ UNCHANGED <<cli_sock, receiving>>
      /\ connecting' \in [Cli!Sock -> {"idle", "flag", "event", "recv"}]
  <2>1. connecting \in [Cli!Sock -> {"idle", "flag", "event", "recv"}]
    BY DEF ClsBase, ClsMaps
  <2> QED
    BY <2>1 DEF Cli!ConnectedReceive
<1>1. CASE posted' = posted
  <2>1. \A t \in Cli!Sock : connecting'[t] # "idle" => connecting[t] # "idle"
    BY <1>0 DEF ClsBase, ClsMaps
  <2> QED
    BY <1>0, <1>1, <2>1, ClsPostedKept
<1>2. CASE posted' # posted
  <2>1. PICK r \in Cli!Sock : r = session
    BY <1>2 DEF Cli!ConnectedReceive, ClsBase, ClsTypes
  <2>2. posted' = [posted EXCEPT ![<<r, s>>] = @ + 1] /\ posted \in [Cli!Sock \X Cli!Sock -> Nat]
    BY <1>2, <2>1 DEF Cli!ConnectedReceive, ClsBase, ClsMaps
  <2>3. PICK from \in [Cli!Sock -> Cli!Sock \X Cli!Sock],
             has \in [Cli!Sock -> {"none", "posted", "served"}] : ClsPostedBy(from, has)
    BY DEF ClsPosted
  <2>4. has[s] = "none"
    BY <1>0, <2>3 DEF ClsPostedBy
  <2>5. PICK p \in Cli!Sock \X Cli!Sock : p = <<r, s>>
    OBVIOUS
  <2>6. PICK f, h : f = [from EXCEPT ![s] = p] /\ h = [has EXCEPT ![s] = "posted"]
    OBVIOUS
  <2>7. /\ f \in [Cli!Sock -> Cli!Sock \X Cli!Sock] /\ h \in [Cli!Sock -> {"none", "posted", "served"}]
        /\ h[s] = "posted" /\ \A t \in Cli!Sock : t # s => h[t] = has[t]
        /\ Cardinality(ClsOrigins(f, h, p)) = Cardinality(ClsOrigins(from, has, p)) + 1
        /\ \A q \in Cli!Sock \X Cli!Sock : q # p => ClsOrigins(f, h, q) = ClsOrigins(from, has, q)
    <3>1. has[s] # "posted"
      BY <2>4
    <3>2. f \in [Cli!Sock -> Cli!Sock \X Cli!Sock] /\ h \in [Cli!Sock -> {"none", "posted", "served"}]
      BY <2>6
    <3>3. h[s] = "posted" /\ \A t \in Cli!Sock : t # s => h[t] = has[t]
      BY <2>6
    <3>4. /\ Cardinality(ClsOrigins(f, h, p)) = Cardinality(ClsOrigins(from, has, p)) + 1
          /\ \A q \in Cli!Sock \X Cli!Sock : q # p => ClsOrigins(f, h, q) = ClsOrigins(from, has, q)
      <4>1. ClsMore(from, has, s, p, f, h)
        BY <2>6, <3>1 DEF ClsMore
      <4> QED
        <5>1. Cardinality(ClsOrigins(f, h, p)) = Cardinality(ClsOrigins(from, has, p)) + 1
          BY ONLY <4>1, ClsOriginsMore
        <5>2. \A q \in Cli!Sock \X Cli!Sock : q # p => ClsOrigins(f, h, q) = ClsOrigins(from, has, q)
          BY ONLY <4>1, ClsOriginsMore
        <5> QED
          BY <5>1, <5>2
    <3> QED
      BY <3>2, <3>3, <3>4
  <2> HIDE <2>6
  <2>10. \A q \in Cli!Sock \X Cli!Sock : posted'[q] = Cardinality(ClsOrigins(f, h, q))
    <3>1. posted'[p] = posted[p] + 1 /\ \A q \in Cli!Sock \X Cli!Sock : q # p => posted'[q] = posted[q]
      BY <2>2, <2>5, ClsPosts
    <3>2. \A q \in Cli!Sock \X Cli!Sock : posted[q] = Cardinality(ClsOrigins(from, has, q))
      BY <2>3 DEF ClsPostedBy
    <3> QED
      BY <2>7, <3>1, <3>2
  <2>11. \A t \in Cli!Sock :
           cli_sock'[t] \in {"none", "connecting"} \/ connecting'[t] # "idle" => h[t] = "none"
    <3>1. connecting \in [Cli!Sock -> {"idle", "flag", "event", "recv"}]
      BY DEF ClsBase, ClsMaps
    <3>2. connecting'[s] = "idle" /\ \A t \in Cli!Sock : t # s => connecting'[t] = connecting[t]
      BY <1>0, <3>1
    <3>3. cli_sock[s] \in {"open", "closed"}
      BY <1>0 DEF ClsBase, ClsSocks
    <3>4. ASSUME NEW t \in Cli!Sock, cli_sock[t] \in {"none", "connecting"} \/ connecting[t] # "idle"
          PROVE  has[t] = "none"
      BY <2>3, <3>4 DEF ClsPostedBy
    <3>5. ASSUME NEW t \in Cli!Sock, t # s,
                 cli_sock'[t] \in {"none", "connecting"} \/ connecting'[t] # "idle"
          PROVE  h[t] = "none"
      <4>1. has[t] = "none"
        BY <1>0, <3>2, <3>4, <3>5
      <4> QED
        BY <2>7, <3>5, <4>1
    <3>6. ~(cli_sock'[s] \in {"none", "connecting"} \/ connecting'[s] # "idle")
      BY <1>0, <3>2, <3>3
    <3> QED
      BY <3>5, <3>6
  <2>12. \A t \in Cli!Sock :
           receiving'[t] \in {"add", "raise", "again"} => \E k \in Cli!Sock : h[k] = "served"
    <3>1. \A t \in Cli!Sock :
            receiving[t] \in {"add", "raise", "again"} => \E k \in Cli!Sock : has[k] = "served"
      BY <2>3 DEF ClsPostedBy
    <3>2. \A k \in Cli!Sock : has[k] = "served" => h[k] = "served"
      BY <2>4, <2>7
    <3> QED
      BY <1>0, <3>1, <3>2
  <2>13. ClsPostedBy(f, h)'
    BY <2>10, <2>11, <2>12 DEF ClsPostedBy, ClsOrigins
  <2> QED
    BY <2>7, <2>13 DEF ClsPosted
<1> QED
  BY <1>1, <1>2

(* A receive completes: what it began with is let go, or is being served.  *)
LEMMA ClsPostedBegins ==
  ASSUME ClsBase, ClsPosted, NEW s \in Cli!Sock, NEW t \in Cli!Sock, Cli!RecvBegin(s, t)
  PROVE  ClsPosted'
<1> USE ClsAssumed
<1>0. /\ posted[<<s, t>>] > 0 /\ posted' = [posted EXCEPT ![<<s, t>>] = @ - 1]
      /\ posted \in [Cli!Sock \X Cli!Sock -> Nat]
      /\ \A r \in Cli!Sock : receiving[r] = "idle"
      /\ receiving \in [Cli!Sock -> {"idle", "add", "raise", "again", "end"}]
      /\ UNCHANGED <<cli_sock, connecting>>
      /\ receiving' = receiving \/ \E place \in {"add", "end"} : receiving' = [receiving EXCEPT ![s] = place]
  BY ClsBaseRecvBegin DEF ClsBase, ClsMaps
<1>1. PICK from \in [Cli!Sock -> Cli!Sock \X Cli!Sock],
           has \in [Cli!Sock -> {"none", "posted", "served"}] : ClsPostedBy(from, has)
  BY DEF ClsPosted
<1>2. PICK p \in Cli!Sock \X Cli!Sock : p = <<s, t>>
  OBVIOUS
<1>3. PICK k \in Cli!Sock : has[k] = "posted" /\ from[k] = p
  <2>1. Cardinality(ClsOrigins(from, has, p)) > 0
    BY <1>0, <1>1, <1>2 DEF ClsPostedBy
  <2>2. ClsOrigins(from, has, p) # {}
    <3>1. Cardinality({}) = 0
      BY FS_EmptySet
    <3> SUFFICES ASSUME ClsOrigins(from, has, p) = {} PROVE FALSE
      OBVIOUS
    <3>2. Cardinality(ClsOrigins(from, has, p)) = 0
      BY <3>1
    <3> QED
      BY <2>1, <3>2
  <2> QED
    BY <2>2 DEF ClsOrigins
<1>4. PICK h : h = [has EXCEPT ![k] = "served"]
  OBVIOUS
<1>5. h \in [Cli!Sock -> {"none", "posted", "served"}] /\ h[k] = "served"
      /\ \A r \in Cli!Sock : r # k => h[r] = has[r]
  BY <1>4
<1>6. /\ Cardinality(ClsOrigins(from, h, p)) = Cardinality(ClsOrigins(from, has, p)) - 1
      /\ \A q \in Cli!Sock \X Cli!Sock : q # p => ClsOrigins(from, h, q) = ClsOrigins(from, has, q)
  <2>1. ClsLess(from, has, k, p, h, "served")
    BY <1>3, <1>4 DEF ClsLess
  <2>2. PICK place \in {"none", "served"} : place = "served"
    OBVIOUS
  <2>3. ClsLess(from, has, k, p, h, place)
    BY <2>1, <2>2
  <2>4. Cardinality(ClsOrigins(from, h, p)) = Cardinality(ClsOrigins(from, has, p)) - 1
    BY ONLY <2>3, ClsOriginsLess
  <2>5. \A q \in Cli!Sock \X Cli!Sock : q # p => ClsOrigins(from, h, q) = ClsOrigins(from, has, q)
    BY ONLY <2>3, ClsOriginsLess
  <2> QED
    BY <2>4, <2>5
<1> HIDE <1>4
<1>7. \A q \in Cli!Sock \X Cli!Sock : posted'[q] = Cardinality(ClsOrigins(from, h, q))
  <2>1. posted'[p] = posted[p] - 1 /\ \A q \in Cli!Sock \X Cli!Sock : q # p => posted'[q] = posted[q]
    BY <1>0, <1>2
  <2>2. \A q \in Cli!Sock \X Cli!Sock : posted[q] = Cardinality(ClsOrigins(from, has, q))
    BY <1>1 DEF ClsPostedBy
  <2> QED
    BY <1>6, <2>1, <2>2
<1>8. \A r \in Cli!Sock :
        cli_sock'[r] \in {"none", "connecting"} \/ connecting'[r] # "idle" => h[r] = "none"
  <2>1. ASSUME NEW r \in Cli!Sock, cli_sock[r] \in {"none", "connecting"} \/ connecting[r] # "idle"
        PROVE  has[r] = "none"
    BY <1>1, <2>1 DEF ClsPostedBy
  <2>2. ASSUME NEW r \in Cli!Sock, cli_sock[r] \in {"none", "connecting"} \/ connecting[r] # "idle"
        PROVE  h[r] = "none"
    <3>1. has[r] = "none" /\ r # k
      BY <1>3, <2>1, <2>2
    <3> QED
      BY <1>5, <3>1
  <2>3. cli_sock' = cli_sock /\ connecting' = connecting
    BY <1>0
  <2> QED
    BY <2>2, <2>3
<1>9. \A r \in Cli!Sock :
        receiving'[r] \in {"add", "raise", "again"} => \E i \in Cli!Sock : h[i] = "served"
  BY <1>5
<1>10. ClsPostedBy(from, h)'
  BY <1>7, <1>8, <1>9 DEF ClsPostedBy, ClsOrigins
<1> QED
  BY <1>5, <1>10 DEF ClsPosted

(* The next receive. *)
LEMMA ClsPostedAgain ==
  ASSUME ClsBase, ClsPosted, NEW s \in Cli!Sock, Cli!RecvAgain(s)
  PROVE  ClsPosted'
<1> USE ClsAssumed DEF Cli!shared, Cli!ReceivingGoes
<1>0. /\ receiving[s] = "again" /\ UNCHANGED <<cli_sock, connecting>>
      /\ receiving' = receiving \/ receiving' = [receiving EXCEPT ![s] = "idle"]
      /\ receiving \in [Cli!Sock -> {"idle", "add", "raise", "again", "end"}]
  BY DEF Cli!RecvAgain, ClsBase, ClsMaps
<1>1. CASE posted' = posted
  BY <1>0, <1>1, ClsPostedKept
<1>2. CASE posted' # posted
  <2>1. PICK r \in Cli!Sock : r = session
    BY <1>2 DEF Cli!RecvAgain, ClsBase, ClsTypes
  <2>2. /\ posted' = [posted EXCEPT ![<<r, r>>] = @ + 1] /\ posted \in [Cli!Sock \X Cli!Sock -> Nat]
        /\ receiving' = [receiving EXCEPT ![s] = "idle"]
    BY <1>2, <2>1 DEF Cli!RecvAgain, ClsBase, ClsMaps
  <2>3. PICK from \in [Cli!Sock -> Cli!Sock \X Cli!Sock],
             has \in [Cli!Sock -> {"none", "posted", "served"}] : ClsPostedBy(from, has)
    BY DEF ClsPosted
  <2>4. PICK k \in Cli!Sock : has[k] = "served"
    BY <1>0, <2>3 DEF ClsPostedBy
  <2>5. PICK p \in Cli!Sock \X Cli!Sock : p = <<r, r>>
    OBVIOUS
  <2>6. PICK f, h : f = [from EXCEPT ![k] = p] /\ h = [has EXCEPT ![k] = "posted"]
    OBVIOUS
  <2>7. /\ f \in [Cli!Sock -> Cli!Sock \X Cli!Sock] /\ h \in [Cli!Sock -> {"none", "posted", "served"}]
        /\ h[k] = "posted" /\ \A t \in Cli!Sock : t # k => h[t] = has[t]
    BY <2>6
  <2>8. ClsMore(from, has, k, p, f, h)
    BY <2>4, <2>6 DEF ClsMore
  <2>9. Cardinality(ClsOrigins(f, h, p)) = Cardinality(ClsOrigins(from, has, p)) + 1
    BY ONLY <2>8, ClsOriginsMore
  <2>10. \A q \in Cli!Sock \X Cli!Sock : q # p => ClsOrigins(f, h, q) = ClsOrigins(from, has, q)
    BY ONLY <2>8, ClsOriginsMore
  <2> HIDE <2>6
  <2>11. \A q \in Cli!Sock \X Cli!Sock : posted'[q] = Cardinality(ClsOrigins(f, h, q))
    <3>1. posted'[p] = posted[p] + 1 /\ \A q \in Cli!Sock \X Cli!Sock : q # p => posted'[q] = posted[q]
      BY <2>2, <2>5, ClsPosts
    <3>2. \A q \in Cli!Sock \X Cli!Sock : posted[q] = Cardinality(ClsOrigins(from, has, q))
      BY <2>3 DEF ClsPostedBy
    <3> QED
      BY <2>9, <2>10, <3>1, <3>2
  <2>12. \A t \in Cli!Sock :
           cli_sock'[t] \in {"none", "connecting"} \/ connecting'[t] # "idle" => h[t] = "none"
    <3>1. ASSUME NEW t \in Cli!Sock, cli_sock[t] \in {"none", "connecting"} \/ connecting[t] # "idle"
          PROVE  has[t] = "none"
      BY <2>3, <3>1 DEF ClsPostedBy
    <3> QED
      BY <1>0, <2>4, <2>7, <3>1
  <2>13. \A t \in Cli!Sock : receiving'[t] \notin {"add", "raise", "again"}
    <3>1. \A t \in Cli!Sock : t # s => receiving[t] = "idle"
      BY <1>0 DEF ClsBase, ClsOne
    <3> QED
      BY <1>0, <2>2, <3>1
  <2>14. ClsPostedBy(f, h)'
    BY <2>11, <2>12, <2>13 DEF ClsPostedBy, ClsOrigins
  <2> QED
    BY <2>7, <2>14 DEF ClsPosted
<1> QED
  BY <1>1, <1>2

LEMMA ClsPostedStep == ClsBase /\ ClsPosted /\ [Cli!Next]_cli => ClsPosted'
<1> SUFFICES ASSUME ClsBase, ClsPosted, [Cli!Next]_cli PROVE ClsPosted'
  OBVIOUS
<1> USE ClsAssumed DEF Cli!shared, Cli!net, Cli!ReceivingGoes, Cli!ConnectedGoes
<1>0. /\ cli_sock \in [Cli!Sock -> {"none", "connecting", "open", "closed"}]
      /\ connecting \in [Cli!Sock -> {"idle", "flag", "event", "recv"}]
      /\ receiving \in [Cli!Sock -> {"idle", "add", "raise", "again", "end"}]
  BY DEF ClsBase, ClsMaps
<1>1. ASSUME NEW s \in Cli!Sock, Cli!Connect(s) PROVE ClsPosted'
  BY <1>0, <1>1, ClsPostedKept DEF Cli!Connect
<1>2. ASSUME NEW s \in Cli!Sock, Cli!Connected(s) PROVE ClsPosted'
  <2>1. CASE Cli!Refused(s) \/ Cli!ConnectedSession(s)
    BY <1>0, <2>1, ClsPostedKept DEF Cli!Refused, Cli!ConnectedSession
  <2>2. CASE Cli!ConnectedFlag(s) \/ Cli!ConnectedEvent(s)
    BY <1>0, <2>2, ClsPostedKept DEF Cli!ConnectedFlag, Cli!ConnectedEvent
  <2> QED
    BY <1>2, <2>1, <2>2, ClsPostedFirst DEF Cli!Connected
<1>3. ASSUME NEW s \in Cli!Sock, Cli!RecvData(s) PROVE ClsPosted'
  <2>1. CASE Cli!RecvAdd(s)
    BY <1>0, <2>1, ClsPostedKept DEF Cli!RecvAdd
  <2>2. CASE Cli!RecvRaise(s)
    <3>1. /\ UNCHANGED <<posted, cli_sock, connecting>> /\ receiving[s] = "raise"
          /\ \E place \in {"again", "idle", "end"} :
               receiving' = receiving \/ receiving' = [receiving EXCEPT ![s] = place]
      BY <2>2 DEF Cli!RecvRaise, Cli!Answers
    <3> QED
      BY <1>0, <3>1, ClsPostedKept
  <2>3. CASE Cli!RecvEnd(s)
    BY <1>0, <2>3, ClsPostedKept DEF Cli!RecvEnd
  <2> QED
    BY <1>3, <2>1, <2>2, <2>3, ClsPostedBegins, ClsPostedAgain DEF Cli!RecvData
<1>4. ASSUME NEW s \in Cli!Sock, NEW how, Cli!Ends(s, how) PROVE ClsPosted'
  BY <1>4, ClsPostedKept DEF Cli!Ends
<1>5. CASE Cli!PressDisconnect \/ Cli!Close
  <2>1. /\ UNCHANGED <<posted, connecting, receiving>>
        /\ \A t \in Cli!Sock : cli_sock'[t] = cli_sock[t] \/ cli_sock'[t] = "closed"
    BY <1>0, <1>5 DEF Cli!PressDisconnect, Cli!Close, Cli!CloseSocket, Cli!CloseNull, Cli!CloseFlag,
       Cli!CloseState
  <2> QED
    BY <2>1, ClsPostedKept
<1>6. CASE UNCHANGED cli
  BY <1>6, ClsPostedKept DEF cli
<1>7. CASE Cli!Send \/ \E s \in Cli!Sock : Cli!SendDataEnd(s)
  BY <1>7, ClsPostedKept DEF Cli!Send, Cli!SendDataEnd
<1> QED
  BY <1>1, <1>2, <1>3, <1>4, <1>5, <1>6, <1>7 DEF Cli!Next

LEMMA ClsTypeOK == ClsBase /\ ClsPosted => Cli!TypeOK
<1> SUFFICES ASSUME ClsBase, ClsPosted PROVE Cli!TypeOK
  OBVIOUS
<1> USE ClsAssumed
<1>1. posted \in [Cli!Sock \X Cli!Sock -> 0..MaxSock]
  <2>1. PICK from \in [Cli!Sock -> Cli!Sock \X Cli!Sock],
             has \in [Cli!Sock -> {"none", "posted", "served"}] : ClsPostedBy(from, has)
    BY DEF ClsPosted
  <2>2. ASSUME NEW p \in Cli!Sock \X Cli!Sock PROVE posted[p] \in 0..MaxSock
    <3>1. ClsOrigins(from, has, p) \subseteq Cli!Sock
      BY DEF ClsOrigins
    <3>2. Cardinality(ClsOrigins(from, has, p)) <= MaxSock
      BY <3>1, FS_Subset
    <3> QED
      BY <2>1, <3>2 DEF ClsPostedBy, ClsBase, ClsMaps
  <2> QED
    BY <2>2 DEF ClsBase, ClsMaps
<1> QED
  BY <1>1 DEF ClsBase, ClsTypes, ClsMaps, Cli!TypeOK

-----------------------------------------------------------------------------
(* As long as no two connects have been under way at once.                 *)
ClsConnIdle == \A s \in Cli!Sock : connecting[s] = "idle"
ClsRecvIdle == \A s \in Cli!Sock : receiving[s] = "idle"
ClsNoneTried == \A s \in Cli!Sock : cli_sock[s] # "connecting"

ClsRest ==
  /\ main = "idle" /\ ClsConnIdle /\ ClsRecvIdle
  /\ \/ /\ cli_state = "Online" /\ isConnected /\ ClsNoneTried
        /\ session # 0 /\ cli_sock[session] = "open" /\ posted[<<session, session>>] = 1
     \/ /\ cli_state = "Offline"
        /\ session # 0 => /\ cli_sock[session] = "open" /\ cli_remote[session] # "open"
                          /\ posted[<<session, session>>] = 0
ClsMakes(s) ==
  /\ main = "idle" /\ ClsRecvIdle /\ ClsNoneTried
  /\ \A t \in Cli!Sock : t # s => connecting[t] = "idle"
  /\ session = s /\ cli_sock[s] = "open" /\ posted[<<s, s>>] = 0
  /\ \/ connecting[s] = "flag" /\ cli_state = "Offline"
     \/ connecting[s] = "event" /\ cli_state = "Offline" /\ isConnected
     \/ connecting[s] = "recv" /\ cli_state = "Online" /\ isConnected
ClsServes(s) ==
  /\ main = "idle" /\ ClsConnIdle /\ ClsNoneTried
  /\ \A t \in Cli!Sock : t # s => receiving[t] = "idle"
  /\ session = s /\ cli_sock[s] = "open" /\ posted[<<s, s>>] = 0
  /\ cli_state = "Online" /\ isConnected
  /\ \/ receiving[s] \in {"add", "raise", "again"}
     \/ receiving[s] = "end" /\ cli_remote[s] # "open"
ClsLeaves ==
  /\ ClsConnIdle /\ ClsRecvIdle /\ ClsNoneTried /\ cli_state = "Online"
  /\ \/ main = "close" /\ session # 0 /\ cli_sock[session] = "open" /\ isConnected
     \/ main = "null" /\ session # 0 /\ cli_sock[session] = "closed"
     \/ main \in {"flag", "state"} /\ session = 0

ClsLeaked == \A s \in Cli!Sock : cli_sock[s] = "open" /\ s # session => cli_remote[s] # "open"
ClsOwn ==
  /\ \A s, t \in Cli!Sock : s # t => posted[<<s, t>>] = 0
  /\ \A s \in Cli!Sock : cli_sock[s] = "open" /\ s # session => posted[<<s, s>>] = 0
  /\ \A s, t \in Cli!Sock : cli_sock[s] = "connecting" /\ cli_sock[t] = "connecting" => s = t
ClsAlone ==
  /\ ~mixed /\ dead \in {"no", "refused", "failed", "send"} /\ ClsLeaked
  /\ dead = "send" => \E s \in Cli!Sock : Cli!EndSendThrows(s)
  /\ dead = "no" =>
       ClsOwn /\ (ClsRest \/ ClsLeaves \/ \E s \in Cli!Sock : ClsMakes(s) \/ ClsServes(s))

ClsIInv == ClsBase /\ ClsPosted /\ (~overlapped => ClsAlone)

LEMMA ClsAtRest ==
  ASSUME ClsAlone, Cli!MayBegin
  PROVE  dead = "no" /\ ClsOwn /\ ClsRest /\ ClsLeaked /\ ~mixed
BY ClsQuietly DEF ClsAlone, ClsLeaves, ClsMakes, ClsServes

LEMMA ClsAloneConnects ==
  ASSUME ClsBase, ClsAlone, NEW s \in Cli!Sock, Cli!Connect(s), ~overlapped'
  PROVE  ClsAlone'
<1> USE ClsAssumed DEF Cli!shared
<1>0. /\ dead = "no" /\ ClsOwn /\ ClsRest /\ ClsLeaked /\ ~mixed /\ cli_state = "Offline"
      /\ cli_sock[s] = "none" /\ cli_sock' = [cli_sock EXCEPT ![s] = "connecting"]
      /\ UNCHANGED <<session, isConnected, cli_state, cli_remote, posted, connecting, receiving,
                     main, mixed, dead>>
  BY ClsAtRest DEF Cli!Connect
<1>1. \A t \in Cli!Sock : cli_sock[t] # "connecting"
  BY DEF Cli!Connect, Cli!UnderWay
<1>2. cli_sock'[s] = "connecting" /\ \A t \in Cli!Sock : t # s => cli_sock'[t] = cli_sock[t]
  BY <1>0 DEF ClsBase, ClsMaps
<1>3. ClsLeaked'
  BY <1>0, <1>2 DEF ClsLeaked
<1>4. ClsOwn'
  BY <1>0, <1>1, <1>2 DEF ClsOwn
<1>5. ClsRest'
  <2>1. session # 0 => session \in Cli!Sock /\ cli_sock[session] = "open"
    BY <1>0 DEF ClsBase, ClsTypes, ClsRest
  <2>2. session # 0 => cli_sock'[session] = "open"
    BY <1>0, <1>2, <2>1
  <2> QED
    BY <1>0, <2>2 DEF ClsRest, ClsConnIdle, ClsRecvIdle
<1> QED
  BY <1>0, <1>3, <1>4, <1>5 DEF ClsAlone

LEMMA ClsAloneMakes ==
  ASSUME ClsBase, ClsAlone, NEW s \in Cli!Sock, Cli!Connected(s)
  PROVE  ClsAlone'
<1> USE ClsAssumed DEF Cli!shared, Cli!net, Cli!ConnectedGoes
<1>0. /\ cli_sock \in [Cli!Sock -> {"none", "connecting", "open", "closed"}]
      /\ connecting \in [Cli!Sock -> {"idle", "flag", "event", "recv"}]
      /\ posted \in [Cli!Sock \X Cli!Sock -> Nat]
  BY DEF ClsBase, ClsMaps
<1>1. CASE Cli!Refused(s)
  <2>1. /\ ClsLeaked /\ ~mixed /\ dead' = "refused"
        /\ cli_sock' = [cli_sock EXCEPT ![s] = "closed"]
        /\ UNCHANGED <<session, cli_remote, mixed>>
    BY <1>1, ClsAtRest DEF Cli!Refused
  <2>2. ClsLeaked'
    BY <1>0, <2>1 DEF ClsLeaked
  <2> QED
    BY <2>1, <2>2 DEF ClsAlone
<1>2. CASE Cli!ConnectedSession(s)
  <2>1. /\ dead = "no" /\ ClsOwn /\ ClsRest /\ ClsLeaked /\ ~mixed /\ session' = s
        /\ cli_sock[s] = "connecting" /\ cli_sock' = [cli_sock EXCEPT ![s] = "open"]
        /\ connecting' = [connecting EXCEPT ![s] = "flag"]
        /\ UNCHANGED <<isConnected, cli_state, cli_remote, posted, receiving, main, mixed, dead>>
    BY <1>2, ClsAtRest DEF Cli!ConnectedSession
  <2>2. /\ cli_sock'[s] = "open" /\ connecting'[s] = "flag"
        /\ \A t \in Cli!Sock : t # s => cli_sock'[t] = cli_sock[t] /\ connecting'[t] = connecting[t]
    BY <1>0, <2>1
  <2>3. cli_state = "Offline" /\ (session # 0 => cli_remote[session] # "open"
                                    /\ posted[<<session, session>>] = 0)
    BY <2>1 DEF ClsRest, ClsNoneTried
  <2>4. ClsLeaked'
    BY <2>1, <2>2, <2>3 DEF ClsLeaked
  <2>5. ClsOwn'
    <3>1. \A t \in Cli!Sock : cli_sock[t] = "open" => posted[<<t, t>>] = 0
      BY <2>1, <2>3 DEF ClsOwn
    <3>2. \A t \in Cli!Sock : cli_sock'[t] = "open" /\ t # s => posted'[<<t, t>>] = 0
      BY <2>1, <2>2, <3>1
    <3>3. \A q, t \in Cli!Sock : q # t => posted'[<<q, t>>] = 0
      BY <2>1 DEF ClsOwn
    <3>4. \A q, t \in Cli!Sock : cli_sock'[q] = "connecting" /\ cli_sock'[t] = "connecting" => q = t
      BY <2>1, <2>2 DEF ClsOwn
    <3> QED
      BY <2>1, <3>2, <3>3, <3>4 DEF ClsOwn
  <2>6. ClsMakes(s)'
    <3>1. \A t \in Cli!Sock : cli_sock'[t] # "connecting"
      BY <2>1, <2>2 DEF ClsOwn
    <3>2. posted[<<s, s>>] = 0
      BY <1>0, <2>1 DEF ClsBase, ClsSocks
    <3>3. \A t \in Cli!Sock : t # s => connecting'[t] = "idle"
      BY <2>1, <2>2 DEF ClsRest, ClsConnIdle
    <3> QED
      BY <2>1, <2>2, <2>3, <3>1, <3>2, <3>3 DEF ClsMakes, ClsRest, ClsRecvIdle, ClsNoneTried
  <2> QED
    BY <2>1, <2>4, <2>5, <2>6 DEF ClsAlone
<1>3. CASE Cli!ConnectedFlag(s) \/ Cli!ConnectedEvent(s) \/ Cli!ConnectedReceive(s)
  <2>1. /\ dead = "no" /\ ClsOwn /\ ClsLeaked /\ ~mixed
        /\ connecting[s] # "idle"
        /\ UNCHANGED <<session, cli_sock, cli_remote, receiving, main, mixed>>
    BY <1>3 DEF ClsAlone, Cli!ConnectedFlag, Cli!ConnectedEvent, Cli!ConnectedReceive
  <2>2. ClsMakes(s)
    BY <2>1 DEF ClsAlone, ClsRest, ClsLeaves, ClsMakes, ClsServes, ClsConnIdle
  <2>3. ClsLeaked'
    BY <2>1 DEF ClsLeaked
  <2>4. CASE Cli!ConnectedFlag(s)
    <3>1. /\ connecting[s] = "flag" /\ connecting' = [connecting EXCEPT ![s] = "event"]
          /\ isConnected' = TRUE /\ UNCHANGED <<cli_state, posted, dead>>
      BY <2>4 DEF Cli!ConnectedFlag
    <3>2. connecting'[s] = "event" /\ \A t \in Cli!Sock : t # s => connecting'[t] = connecting[t]
      BY <1>0, <3>1
    <3>3. ClsOwn'
      BY <2>1, <3>1 DEF ClsOwn
    <3>4. ClsMakes(s)'
      BY <2>1, <2>2, <3>1, <3>2 DEF ClsMakes, ClsRecvIdle, ClsNoneTried
    <3> QED
      BY <2>1, <2>3, <3>1, <3>3, <3>4 DEF ClsAlone
  <2>5. CASE Cli!ConnectedEvent(s)
    <3>1. /\ connecting[s] = "event" /\ connecting' = [connecting EXCEPT ![s] = "recv"]
          /\ cli_state' = "Online" /\ UNCHANGED <<isConnected, posted, dead>>
      BY <2>5 DEF Cli!ConnectedEvent
    <3>2. connecting'[s] = "recv" /\ \A t \in Cli!Sock : t # s => connecting'[t] = connecting[t]
      BY <1>0, <3>1
    <3>3. ClsOwn'
      BY <2>1, <3>1 DEF ClsOwn
    <3>4. ClsMakes(s)'
      BY <2>1, <2>2, <3>1, <3>2 DEF ClsMakes, ClsRecvIdle, ClsNoneTried
    <3> QED
      BY <2>1, <2>3, <3>1, <3>3, <3>4 DEF ClsAlone
  <2>6. CASE Cli!ConnectedReceive(s)
    <3>1. /\ connecting[s] = "recv" /\ connecting' = [connecting EXCEPT ![s] = "idle"]
          /\ session = s /\ cli_sock[s] = "open" /\ posted[<<s, s>>] = 0
          /\ posted' = [posted EXCEPT ![<<s, s>>] = @ + 1]
          /\ UNCHANGED <<isConnected, cli_state, dead>>
      BY <2>2, <2>6 DEF Cli!ConnectedReceive, ClsMakes
    <3>2. \A t \in Cli!Sock : connecting'[t] = "idle"
      BY <1>0, <2>2, <3>1 DEF ClsMakes
    <3>3. /\ posted'[<<s, s>>] = 1
          /\ \A q, t \in Cli!Sock : ~(q = s /\ t = s) => posted'[<<q, t>>] = posted[<<q, t>>]
      BY <1>0, <3>1, ClsPosts
    <3>4. ClsOwn'
      BY <2>1, <3>1, <3>3 DEF ClsOwn
    <3>5. ClsRest'
      BY <2>1, <2>2, <3>1, <3>2, <3>3 DEF ClsMakes, ClsRest, ClsConnIdle, ClsRecvIdle, ClsNoneTried
    <3> QED
      BY <2>1, <2>3, <3>1, <3>4, <3>5 DEF ClsAlone
  <2> QED
    BY <1>3, <2>4, <2>5, <2>6
<1> QED
  BY <1>1, <1>2, <1>3 DEF Cli!Connected

LEMMA ClsAloneServes ==
  ASSUME ClsBase, ClsAlone, NEW s \in Cli!Sock, Cli!RecvData(s)
  PROVE  ClsAlone'
<1> USE ClsAssumed DEF Cli!shared, Cli!net, Cli!ReceivingGoes
<1>0. /\ cli_sock \in [Cli!Sock -> {"none", "connecting", "open", "closed"}]
      /\ receiving \in [Cli!Sock -> {"idle", "add", "raise", "again", "end"}]
      /\ posted \in [Cli!Sock \X Cli!Sock -> Nat]
  BY DEF ClsBase, ClsMaps
<1>1. ASSUME NEW t \in Cli!Sock, Cli!RecvBegin(s, t) PROVE ClsAlone'
  <2>1. /\ posted[<<s, t>>] > 0 /\ posted[<<s, t>>] \in Nat
        /\ posted' = [posted EXCEPT ![<<s, t>>] = @ - 1]
        /\ UNCHANGED <<session, isConnected, cli_state, cli_sock, cli_remote, connecting, main, mixed>>
        /\ \/ s # t
           \/ s = t /\ cli_sock[s] = "closed" /\ dead' = "no" /\ receiving' = receiving
           \/ s = t /\ cli_sock[s] = "open" /\ dead' = "failed"
           \/ s = t /\ cli_sock[s] = "open" /\ dead' = "no"
                /\ receiving' = [receiving EXCEPT ![s] = "add"]
           \/ s = t /\ cli_sock[s] = "open" /\ cli_remote[s] # "open" /\ dead' = "no"
                /\ receiving' = [receiving EXCEPT ![s] = "end"]
    BY <1>1, ClsBaseRecvBegin
  <2>2. dead = "no" /\ ClsOwn /\ ClsRest /\ ClsLeaked /\ ~mixed
    BY <1>1, ClsAtRest DEF Cli!RecvBegin
  <2>3. s = t
    BY <2>1, <2>2 DEF ClsOwn
  <2>4. ClsLeaked'
    BY <2>1, <2>2 DEF ClsLeaked
  <2>5. /\ posted'[<<s, s>>] = posted[<<s, s>>] - 1
        /\ \A q, r \in Cli!Sock : ~(q = s /\ r = s) => posted'[<<q, r>>] = posted[<<q, r>>]
    <3>1. posted'[<<s, s>>] = posted[<<s, s>>] - 1
      BY <1>0, <2>1, <2>3
    <3>2. \A p \in Cli!Sock \X Cli!Sock : p # <<s, s>> => posted'[p] = posted[p]
      BY <1>0, <2>1, <2>3
    <3> QED
      BY <3>1, <3>2
  <2>6. CASE cli_sock[s] = "closed"
    <3>1. dead' = "no" /\ receiving' = receiving
      BY <2>1, <2>3, <2>6
    <3>2. ClsOwn'
      BY <2>1, <2>2, <2>5, <2>6 DEF ClsOwn
    <3>3. session # s
      BY <2>2, <2>6 DEF ClsRest
    <3>4. session # 0 => posted'[<<session, session>>] = posted[<<session, session>>]
      BY <2>5, <3>3 DEF ClsBase, ClsTypes
    <3>5. ClsRest'
      BY <2>1, <2>2, <3>1, <3>4 DEF ClsRest, ClsConnIdle, ClsRecvIdle, ClsNoneTried
    <3> QED
      BY <2>1, <2>2, <2>4, <3>1, <3>2, <3>5 DEF ClsAlone
  <2>7. CASE dead' = "failed"
    BY <2>1, <2>2, <2>4, <2>7 DEF ClsAlone
  <2>8. CASE cli_sock[s] # "closed" /\ dead' # "failed"
    <3>1. /\ cli_sock[s] = "open" /\ dead' = "no"
          /\ \/ receiving' = [receiving EXCEPT ![s] = "add"]
             \/ cli_remote[s] # "open" /\ receiving' = [receiving EXCEPT ![s] = "end"]
      BY <2>1, <2>3, <2>8
    <3>2. s = session /\ posted[<<s, s>>] = 1 /\ cli_state = "Online" /\ isConnected /\ ClsNoneTried
      <4>1. s = session
        BY <2>1, <2>2, <2>3, <3>1 DEF ClsOwn
      <4> QED
        BY <2>1, <2>2, <2>3, <4>1 DEF ClsRest
    <3>3. posted'[<<s, s>>] = 0
      BY <2>5, <3>2
    <3>4. ClsOwn'
      BY <2>1, <2>2, <2>5, <3>3 DEF ClsOwn
    <3>5. /\ receiving'[s] \in {"add", "raise", "again"} \/ (receiving'[s] = "end" /\ cli_remote[s] # "open")
          /\ \A r \in Cli!Sock : r # s => receiving'[r] = receiving[r]
      BY <1>0, <3>1
    <3>6. ClsServes(s)'
      BY <2>1, <2>2, <3>1, <3>2, <3>3, <3>5 DEF ClsServes, ClsRest, ClsConnIdle, ClsRecvIdle, ClsNoneTried
    <3> QED
      BY <2>1, <2>2, <2>4, <3>1, <3>4, <3>6 DEF ClsAlone
  <2> QED
    BY <2>6, <2>7, <2>8
<1>2. CASE Cli!RecvAdd(s) \/ Cli!RecvRaise(s) \/ Cli!RecvAgain(s) \/ Cli!RecvEnd(s)
  <2>1. /\ dead = "no" /\ ClsOwn /\ ClsLeaked /\ ~mixed /\ receiving[s] # "idle"
        /\ UNCHANGED <<session, isConnected, cli_sock, cli_remote, connecting, main>>
    BY <1>2 DEF ClsAlone, Cli!RecvAdd, Cli!RecvRaise, Cli!Answers, Cli!RecvAgain, Cli!RecvEnd
  <2>2. ClsServes(s)
    BY <2>1 DEF ClsAlone, ClsRest, ClsLeaves, ClsMakes, ClsServes, ClsRecvIdle
  <2>3. session = s /\ session # 0 /\ cli_sock[s] = "open" /\ isConnected = TRUE
    BY <2>2 DEF ClsServes, ClsBase, ClsTypes
  <2>4. ClsLeaked'
    BY <2>1 DEF ClsLeaked
  <2>8. CASE Cli!RecvRaise(s) /\ dead' # "no"
    <3>1. dead' = "failed" /\ mixed' = mixed
      BY <2>1, <2>3, <2>8 DEF Cli!RecvRaise, Cli!Answers
    <3> QED
      BY <2>1, <2>4, <3>1 DEF ClsAlone
  <2>5. CASE Cli!RecvAdd(s) \/ (Cli!RecvRaise(s) /\ dead' = "no")
    <3>1. /\ dead' = "no" /\ ~mixed' /\ UNCHANGED <<cli_state, posted>>
          /\ \E place \in {"raise", "again", "end"} :
               /\ receiving' = [receiving EXCEPT ![s] = place]
               /\ place = "end" => cli_remote[s] # "open"
      <4>1. CASE Cli!RecvAdd(s)
        BY <2>1, <2>3, <4>1 DEF Cli!RecvAdd
      <4>2. CASE Cli!RecvRaise(s) /\ dead' = "no"
        BY <2>1, <2>3, <4>2 DEF Cli!RecvRaise, Cli!Answers
      <4> QED
        BY <2>5, <4>1, <4>2
    <3>2. /\ \/ receiving'[s] \in {"add", "raise", "again"}
             \/ receiving'[s] = "end" /\ cli_remote[s] # "open"
          /\ \A r \in Cli!Sock : r # s => receiving'[r] = receiving[r]
      BY <1>0, <3>1
    <3>3. ClsOwn'
      BY <2>1, <3>1 DEF ClsOwn
    <3>4. ClsServes(s)'
      BY <2>1, <2>2, <3>1, <3>2 DEF ClsServes, ClsConnIdle, ClsNoneTried
    <3> QED
      BY <2>4, <3>1, <3>3, <3>4 DEF ClsAlone
  <2>6. CASE Cli!RecvAgain(s)
    <3>1. /\ dead' = "no" /\ ~mixed' /\ cli_state' = cli_state
          /\ receiving' = [receiving EXCEPT ![s] = "idle"]
          /\ posted' = [posted EXCEPT ![<<s, s>>] = @ + 1]
      BY <2>1, <2>3, <2>6 DEF Cli!RecvAgain
    <3>2. \A r \in Cli!Sock : receiving'[r] = "idle"
      BY <1>0, <2>2, <3>1 DEF ClsServes
    <3>3. posted[<<s, s>>] = 0
      BY <2>2 DEF ClsServes
    <3>4. /\ posted'[<<s, s>>] = 1
          /\ \A q, t \in Cli!Sock : ~(q = s /\ t = s) => posted'[<<q, t>>] = posted[<<q, t>>]
      BY <1>0, <3>1, <3>3, ClsPosts
    <3>5. ClsOwn'
      BY <2>1, <2>3, <3>4 DEF ClsOwn
    <3>6. ClsRest'
      BY <2>1, <2>2, <2>3, <3>1, <3>2, <3>4
         DEF ClsServes, ClsRest, ClsConnIdle, ClsRecvIdle, ClsNoneTried
    <3> QED
      BY <2>4, <3>1, <3>5, <3>6 DEF ClsAlone
  <2>7. CASE Cli!RecvEnd(s)
    <3>1. /\ dead' = "no" /\ ~mixed' /\ cli_state' = "Offline" /\ receiving[s] = "end"
          /\ receiving' = [receiving EXCEPT ![s] = "idle"] /\ posted' = posted
      BY <2>1, <2>3, <2>7 DEF Cli!RecvEnd
    <3>2. \A r \in Cli!Sock : receiving'[r] = "idle"
      BY <1>0, <2>2, <3>1 DEF ClsServes
    <3>3. ClsOwn'
      BY <2>1, <3>1 DEF ClsOwn
    <3>4. ClsRest'
      BY <2>1, <2>2, <2>3, <3>1, <3>2 DEF ClsServes, ClsRest, ClsConnIdle, ClsRecvIdle
    <3> QED
      BY <2>4, <3>1, <3>3, <3>4 DEF ClsAlone
  <2> QED
    BY <1>2, <2>5, <2>6, <2>7, <2>8
<1> QED
  BY <1>1, <1>2 DEF Cli!RecvData

LEMMA ClsAloneLeaves ==
  ASSUME ClsBase, ClsAlone, Cli!PressDisconnect \/ Cli!Close
  PROVE  ClsAlone'
<1> USE ClsAssumed DEF Cli!shared, Cli!net
<1>0. /\ dead = "no" /\ dead' = "no" /\ ClsOwn /\ ClsLeaked /\ ~mixed
      /\ cli_sock \in [Cli!Sock -> {"none", "connecting", "open", "closed"}]
      /\ isConnected \in BOOLEAN
      /\ UNCHANGED <<cli_remote, posted, connecting, receiving, mixed>>
  BY DEF ClsAlone, ClsBase, ClsTypes, ClsMaps, Cli!PressDisconnect, Cli!Close, Cli!CloseSocket,
     Cli!CloseNull, Cli!CloseFlag, Cli!CloseState, Cli!MayBegin
<1>1. CASE Cli!PressDisconnect
  <2>1. /\ ClsRest /\ cli_state = "Online" /\ main' = IF isConnected THEN "close" ELSE "state"
        /\ UNCHANGED <<session, isConnected, cli_state, cli_sock>>
    BY <1>1, ClsAtRest DEF Cli!PressDisconnect
  <2>2. main' = "close" /\ session # 0 /\ cli_sock[session] = "open" /\ isConnected
    BY <2>1 DEF ClsRest
  <2>3. ClsLeaves'
    BY <1>0, <2>1, <2>2 DEF ClsLeaves, ClsRest, ClsConnIdle, ClsRecvIdle, ClsNoneTried
  <2>4. ClsLeaked' /\ ClsOwn'
    BY <1>0, <2>1 DEF ClsLeaked, ClsOwn
  <2> QED
    BY <1>0, <2>3, <2>4 DEF ClsAlone
<1>2. CASE Cli!Close
  <2>1. main # "idle"
    BY <1>2 DEF Cli!Close, Cli!CloseSocket, Cli!CloseNull, Cli!CloseFlag, Cli!CloseState
  <2>2. ClsLeaves
    BY <1>0, <2>1 DEF ClsAlone, ClsRest, ClsMakes, ClsServes
  <2>3. CASE Cli!CloseSocket
    <3>1. main = "close" /\ session # 0 /\ cli_sock[session] = "open"
      BY <2>2, <2>3 DEF ClsLeaves, Cli!CloseSocket
    <3>2. PICK r \in Cli!Sock : r = session
      BY <3>1 DEF ClsBase, ClsTypes
    <3>3. /\ main' = "null" /\ cli_sock' = [cli_sock EXCEPT ![r] = "closed"]
          /\ UNCHANGED <<session, isConnected, cli_state>>
      BY <2>3, <3>1, <3>2 DEF Cli!CloseSocket
    <3>4. cli_sock'[r] = "closed" /\ \A t \in Cli!Sock : t # r => cli_sock'[t] = cli_sock[t]
      BY <1>0, <3>3
    <3>5. ClsLeaked'
      BY <1>0, <3>3, <3>4 DEF ClsLeaked
    <3>6. ClsOwn'
      <4>1. /\ posted' = posted /\ session' = session
            /\ \A t \in Cli!Sock : cli_sock'[t] = cli_sock[t] \/ cli_sock'[t] = "closed"
        BY <1>0, <3>3, <3>4
      <4> QED
        <5>1. ClsOwn
          BY <1>0
        <5>2. /\ \A q, t \in Cli!Sock : q # t => posted'[<<q, t>>] = 0
              /\ \A t \in Cli!Sock : cli_sock'[t] = "open" /\ t # session' => posted'[<<t, t>>] = 0
          BY <4>1, <5>1 DEF ClsOwn
        <5>3. \A q, t \in Cli!Sock : cli_sock'[q] = "connecting" /\ cli_sock'[t] = "connecting"
                 => q = t
          BY <4>1, <5>1 DEF ClsOwn
        <5> QED
          BY <5>2, <5>3, Zenon DEF ClsOwn
    <3>7. ClsLeaves'
      BY <1>0, <2>2, <3>1, <3>2, <3>3, <3>4 DEF ClsLeaves, ClsConnIdle, ClsRecvIdle, ClsNoneTried
    <3> QED
      BY <1>0, <3>5, <3>6, <3>7 DEF ClsAlone
  <2>4. CASE Cli!CloseNull
    <3>1. /\ main = "null" /\ session' = 0 /\ main' = "flag"
          /\ UNCHANGED <<isConnected, cli_state, cli_sock>>
      BY <2>4 DEF Cli!CloseNull
    <3>2. session # 0 /\ cli_sock[session] = "closed"
      BY <2>2, <3>1 DEF ClsLeaves
    <3>3. ClsLeaked' /\ ClsOwn'
      BY <1>0, <3>1, <3>2 DEF ClsLeaked, ClsOwn
    <3>4. ClsLeaves'
      BY <1>0, <2>2, <3>1 DEF ClsLeaves, ClsConnIdle, ClsRecvIdle, ClsNoneTried
    <3> QED
      BY <1>0, <3>3, <3>4 DEF ClsAlone
  <2>5. CASE Cli!CloseFlag
    <3>1. /\ main = "flag" /\ main' = "state" /\ UNCHANGED <<session, cli_state, cli_sock>>
      BY <2>5 DEF Cli!CloseFlag
    <3>2. ClsLeaked' /\ ClsOwn'
      BY <1>0, <3>1 DEF ClsLeaked, ClsOwn
    <3>3. ClsLeaves'
      BY <1>0, <2>2, <3>1 DEF ClsLeaves, ClsConnIdle, ClsRecvIdle, ClsNoneTried
    <3> QED
      BY <1>0, <3>2, <3>3 DEF ClsAlone
  <2>6. CASE Cli!CloseState
    <3>1. /\ main = "state" /\ main' = "idle" /\ cli_state' = "Offline"
          /\ UNCHANGED <<session, isConnected, cli_sock>>
      BY <2>6 DEF Cli!CloseState
    <3>2. ClsLeaked' /\ ClsOwn'
      BY <1>0, <3>1 DEF ClsLeaked, ClsOwn
    <3>3. ClsRest'
      BY <1>0, <2>2, <3>1 DEF ClsLeaves, ClsRest, ClsConnIdle, ClsRecvIdle
    <3> QED
      BY <1>0, <3>2, <3>3 DEF ClsAlone
  <2> QED
    BY <1>2, <2>3, <2>4, <2>5, <2>6 DEF Cli!Close
<1> QED
  BY <1>1, <1>2

(* What is being sent does not matter, and a server's end can go at any    *)
(* time.                                                                   *)
LEMMA ClsAloneKept ==
  ASSUME ClsBase, ClsAlone,
         UNCHANGED <<session, isConnected, cli_state, cli_sock, posted, connecting, receiving, main,
                     mixed, dead>>,
         \A t \in Cli!Sock : cli_remote[t] # "open" => cli_remote'[t] # "open"
  PROVE  ClsAlone'
<1> USE ClsAssumed
<1>1. dead = "send" => \E s \in Cli!Sock : Cli!EndSendThrows(s)'
  BY DEF ClsAlone, Cli!EndSendThrows
<1>2. ClsLeaked' /\ (ClsOwn => ClsOwn')
  BY DEF ClsAlone, ClsLeaked, ClsOwn
<1>3. ClsRest => ClsRest'
  BY DEF ClsRest, ClsConnIdle, ClsRecvIdle, ClsNoneTried, ClsBase, ClsTypes
<1>4. ClsLeaves => ClsLeaves'
  BY DEF ClsLeaves, ClsConnIdle, ClsRecvIdle, ClsNoneTried
<1>5. ASSUME NEW s \in Cli!Sock PROVE (ClsMakes(s) => ClsMakes(s)') /\ (ClsServes(s) => ClsServes(s)')
  BY DEF ClsMakes, ClsServes, ClsConnIdle, ClsRecvIdle, ClsNoneTried
<1> QED
  BY <1>1, <1>2, <1>3, <1>4, <1>5 DEF ClsAlone

LEMMA ClsAloneEnds ==
  ASSUME ClsBase, ClsAlone,
         \/ UNCHANGED <<cli, overlapped>>
         \/ \E s \in Cli!Sock, how \in {"shut", "reset", "failed"} : Cli!Ends(s, how)
  PROVE  ClsAlone'
<1>1. /\ UNCHANGED <<session, isConnected, cli_state, cli_sock, posted, connecting, receiving, main,
                     mixed, dead>>
      /\ \A t \in Cli!Sock : cli_remote[t] # "open" => cli_remote'[t] # "open"
  BY DEF cli, Cli!shared, Cli!Ends, ClsBase, ClsMaps
<1> QED
  BY <1>1, ClsAloneKept

(* A send is begun, or its callback runs, and may die.                     *)
LEMMA ClsAloneSends ==
  ASSUME ClsBase, ClsAlone, NEW s \in Cli!Sock, Cli!Send \/ Cli!SendDataEnd(s)
  PROVE  ClsAlone'
<1>1. /\ UNCHANGED <<session, isConnected, cli_state, cli_sock, cli_remote, posted, connecting,
                     receiving, main, mixed>>
      /\ dead' = dead \/ (dead' = "send" /\ Cli!EndSendThrows(s))
  BY DEF Cli!shared, Cli!Send, Cli!SendDataEnd
<1>2. CASE dead' = dead
  BY <1>1, <1>2, ClsAloneKept
<1>3. CASE dead' = "send" /\ Cli!EndSendThrows(s)
  <2>1. ClsLeaked' /\ ~mixed'
    BY <1>1 DEF ClsAlone, ClsLeaked
  <2>2. Cli!EndSendThrows(s)'
    BY <1>1, <1>3 DEF Cli!EndSendThrows
  <2> QED
    BY <1>3, <2>1, <2>2 DEF ClsAlone
<1> QED
  BY <1>1, <1>2, <1>3

LEMMA ClsInit == Cli!Init => ClsIInv
<1> SUFFICES ASSUME Cli!Init PROVE ClsIInv
  OBVIOUS
<1> USE ClsAssumed DEF Cli!Init
<1>1. ClsBase
  <2>1. ClsTypes
    BY DEF ClsTypes
  <2>2. ClsMaps
    BY DEF ClsMaps
  <2>3. ClsSocks
    <3>1. \A s, t \in Cli!Sock : <<s, t>> \in Cli!Sock \X Cli!Sock
      OBVIOUS
    <3>2. \A s, t \in Cli!Sock : posted[<<s, t>>] = 0
      BY <3>1
    <3> QED
      BY <3>2 DEF ClsSocks
  <2>4. ClsOne
    BY DEF ClsOne
  <2> QED
    BY <2>1, <2>2, <2>3, <2>4 DEF ClsBase
<1>2. ClsPosted
  <2>1. PICK from, has : /\ from = [t \in Cli!Sock |-> <<t, t>>]
                         /\ has = [t \in Cli!Sock |-> "none"]
    OBVIOUS
  <2>2. from \in [Cli!Sock -> Cli!Sock \X Cli!Sock] /\ has \in [Cli!Sock -> {"none", "posted", "served"}]
    BY <2>1
  <2>3. \A p \in Cli!Sock \X Cli!Sock : ClsOrigins(from, has, p) = {} /\ posted[p] = 0
    BY <2>1 DEF ClsOrigins
  <2>4. Cardinality({}) = 0
    BY FS_EmptySet
  <2>5. \A p \in Cli!Sock \X Cli!Sock : posted[p] = Cardinality(ClsOrigins(from, has, p))
    BY <2>3, <2>4
  <2>6. ClsPostedBy(from, has)
    BY <2>1, <2>5 DEF ClsPostedBy
  <2> QED
    BY <2>2, <2>6 DEF ClsPosted
<1>3. ClsAlone
  BY DEF ClsAlone, ClsLeaked, ClsOwn, ClsRest, ClsConnIdle, ClsRecvIdle
<1> QED
  BY <1>1, <1>2, <1>3 DEF ClsIInv

LEMMA ClsStep == ClsIInv /\ [Cli!Next]_cli => ClsIInv'
<1> SUFFICES ASSUME ClsIInv, [Cli!Next]_cli PROVE ClsIInv'
  OBVIOUS
<1>1. ClsBase' /\ ClsPosted'
  BY ClsBaseStep, ClsPostedStep DEF ClsIInv
<1>2. ASSUME ~overlapped' PROVE ClsAlone'
  <2>1. ~overlapped
    BY <1>2 DEF Cli!Next, cli, Cli!Connect, Cli!Connected, Cli!Refused, Cli!ConnectedSession,
       Cli!ConnectedFlag, Cli!ConnectedEvent, Cli!ConnectedReceive, Cli!RecvData, Cli!RecvBegin,
       Cli!RecvAdd, Cli!RecvRaise, Cli!RecvAgain, Cli!RecvEnd, Cli!Ends, Cli!PressDisconnect,
       Cli!Close, Cli!CloseSocket, Cli!CloseNull, Cli!CloseFlag, Cli!CloseState, Cli!Send,
       Cli!SendDataEnd
  <2>2. ClsBase /\ ClsAlone
    BY <2>1 DEF ClsIInv
  <2>3. CASE UNCHANGED cli
    BY <2>2, <2>3, ClsAloneEnds DEF cli
  <2>4. CASE Cli!Send
    <3>1. 0 # session /\ session \in Cli!Sock
      BY <2>2, <2>4, ClsAssumed DEF Cli!Send, ClsBase, ClsTypes
    <3> QED
      BY <2>2, <2>4, <3>1, ClsAloneSends
  <2> QED
    BY <1>2, <2>2, <2>3, <2>4, ClsAloneConnects, ClsAloneMakes, ClsAloneServes, ClsAloneLeaves,
       ClsAloneEnds, ClsAloneSends DEF Cli!Next
<1> QED
  BY <1>1, <1>2 DEF ClsIInv

LEMMA ClsIsRight ==
  ClsIInv => /\ Cli!TypeOK /\ Cli!CallbacksSurvive /\ Cli!OwnSession
             /\ Cli!OneReceive /\ Cli!LeakedAreEnded
<1> SUFFICES ASSUME ClsIInv
             PROVE  /\ Cli!TypeOK /\ Cli!CallbacksSurvive /\ Cli!OwnSession
                    /\ Cli!OneReceive /\ Cli!LeakedAreEnded
  OBVIOUS
<1>1. Cli!TypeOK
  BY ClsTypeOK DEF ClsIInv
<1>2. Cli!CallbacksSurvive /\ Cli!OwnSession
  BY DEF ClsIInv, ClsAlone, Cli!CallbacksSurvive, Cli!OwnSession
<1>3. Cli!LeakedAreEnded
  BY DEF ClsIInv, ClsAlone, ClsLeaked, Cli!LeakedAreEnded
<1>4. Cli!OneReceive
  <2> SUFFICES ASSUME ~overlapped, Cli!Quiet, dead = "no",
                      NEW s \in Cli!Sock, NEW t \in Cli!Sock, cli_sock[s] = "open"
               PROVE  posted[<<s, t>>] = IF s = t /\ s = session /\ cli_state = "Online" THEN 1 ELSE 0
    BY DEF Cli!OneReceive
  <2>1. ClsOwn /\ ClsRest
    BY ClsAtRest DEF ClsIInv, Cli!MayBegin
  <2>2. CASE s # t \/ s # session
    BY <2>1, <2>2 DEF ClsOwn
  <2>3. CASE s = t /\ s = session
    BY <2>1, <2>3, ClsAssumed DEF ClsRest
  <2> QED
    BY <2>2, <2>3
<1> QED
  BY <1>1, <1>2, <1>3, <1>4

-----------------------------------------------------------------------------
(* TcpCli in the composition.                                              *)
ClientSessionIInv ==
  /\ moves = "cli" => ClsIInv
  /\ moves = "cli_threads" => CltIInv

(* TcpCli.Connect, Connected, RecvData, Close: when calls and callbacks do *)
(* not overlap, a callback dies only of a connection that was refused or   *)
(* failed, or of a send whose socket was closed or whose server went before*)
(* its end was told; bytes are handed to the session of the connection they*)
(* came on, an online session has exactly one receive, and a socket that   *)
(* was left open is one whose server is gone.  On threads, a client that is*)
(* online has a session to send with.                                      *)
THEOREM ClientSessionCorrect == Spec => []ClientSessionRight
<1>1. Init => ClientSessionIInv
  BY ClsInit, CltInit DEF ClientSessionIInv, Init
<1>2. ClientSessionIInv /\ [Next]_vars => ClientSessionIInv'
  <2> SUFFICES ASSUME ClientSessionIInv, [Next]_vars PROVE ClientSessionIInv'
    OBVIOUS
  <2>1. moves' = moves
    BY DEF Next, vars, SvrMoves, CliMoves, ThreadsMove, SelectMoves, PacketMoves, AliveMoves
  <2>2. (moves = "cli" /\ Cli!Next) \/ (moves = "cli_threads" /\ CliThreads!Next)
        \/ UNCHANGED cli
    BY DEF Next, vars, SvrMoves, CliMoves, ThreadsMove, SelectMoves, PacketMoves, AliveMoves
  <2>3. CASE moves = "cli"
    BY <2>1, <2>2, <2>3, ClsStep DEF ClientSessionIInv
  <2>4. CASE moves = "cli_threads"
    BY <2>1, <2>2, <2>4, CltStep DEF ClientSessionIInv
  <2> QED
    BY <2>1, <2>3, <2>4 DEF ClientSessionIInv
<1>3. ClientSessionIInv => ClientSessionRight
  BY ClsIsRight, CltIsRight DEF ClientSessionIInv, ClientSessionRight
<1> QED
  BY <1>1, <1>2, <1>3, PTL DEF Spec
=============================================================================
