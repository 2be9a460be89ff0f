------------------------------- MODULE MCNet -------------------------------
(***************************************************************************)
(* Net.tla for TLC, and beside its components the framing of the game's    *)
(* protocol in both directions and the resolver of datagrams, which move   *)
(* in behaviours of their own.  Nothing tells the clients of TcpSvr apart, *)
(* so permuting them is a symmetry.                                        *)
(***************************************************************************)
EXTENDS Net, FiniteSets, TLC

VARIABLES
  srv_wire, read_buf, srv_last, srv_parity,
  cli_wire, RecvBuffer, RecvPacket, cli_raised, deaf, cli_last, cli_parity,
  stream, arrived, Datagram, raised, dropped, torn

server == <<srv_wire, read_buf, srv_last, srv_parity>>
client == <<cli_wire, RecvBuffer, RecvPacket, cli_raised, deaf, cli_last, cli_parity>>
resolver == <<stream, arrived, Datagram, raised, dropped, torn>>
netVars == <<svr, cli, threads, select, packet, alive>>
allVars == <<vars, server, client, resolver>>

ClientSymmetry == Permutations(Client)

(* Field and Foreign: numbers, among them four of 64 bits: without the     *)
(* bits 31 and 39, 2^31, 2^39 and -1; a byte string; packets of a caller   *)
(* that are whole, cut off, and longer than a packet may be.               *)
PacketField == { [kind |-> "number", bytes |-> <<1, 2>>],
                 [kind |-> "long", bytes |-> <<1, 2, 3, 4, 5, 6, 7, 8>>],
                 [kind |-> "long", bytes |-> <<0, 0, 0, 128, 0, 0, 0, 0>>],
                 [kind |-> "long", bytes |-> <<0, 0, 0, 0, 128, 0, 0, 0>>],
                 [kind |-> "long", bytes |-> [k \in 1..8 |-> 255]],
                 [kind |-> "binary", bytes |-> <<6, 7, 8>>] }
PacketForeign == { <<0, 1, 5, 9>>, <<0, 3, 5, 9>>,
                   <<0, 9, 1, 2, 3, 4, 5, 6, 7, 8>> }

-----------------------------------------------------------------------------
(* A byte has two values for the server and three for the client, whose    *)
(* commands take two bytes: command 1 has no body, and the body of command *)
(* 2 reads as command 1.                                                   *)
ToServer == {<<1>>, <<0, 1>>}
ToClient == {<<0, 1>>, <<0, 2, 0, 1>>}

GameServer == INSTANCE ServerFraming
  WITH Base <- 2, Message <- ToServer, ReadSize <- 5, MaxStream <- 12,
       KeepAlive <- <<1>>, MayMerge <- TRUE,
       wire <- srv_wire, last <- srv_last, parity <- srv_parity
ServerUnmerged == INSTANCE ServerFraming
  WITH Base <- 2, Message <- ToServer, ReadSize <- 5, MaxStream <- 12,
       KeepAlive <- <<1>>, MayMerge <- FALSE,
       wire <- srv_wire, last <- srv_last, parity <- srv_parity

GameClient == INSTANCE ClientFraming
  WITH Base <- 3, Message <- ToClient, ReadSize <- 8, MaxStream <- 14,
       KeepAlive <- <<0, 1>>, KnownCmd <- {1, 2}, ReadsBody <- {1, 2},
       WholeFirst <- TRUE, wire <- cli_wire, raised <- cli_raised,
       last <- cli_last, parity <- cli_parity

(* Characters of one byte, and some of two: their second byte is that of a *)
(* bracket, or the first of another.                                       *)
ResolverShort == INSTANCE Resolver
  WITH Char <- {<<"a">>, <<"]">>, <<"h", "]">>, <<"h", "h">>}, Lead <- {"h"},
       Tag <- << <<"]">> >>, MaxStream <- 5, MaxDatagramSize <- 3
ResolverLong == INSTANCE Resolver
  WITH Char <- {<<"a">>, <<"]">>, <<"}">>, <<"h", "]">>}, Lead <- {"h"},
       Tag <- << <<"]">>, <<"}">> >>, MaxStream <- 5, MaxDatagramSize <- 10

ASSUME
  /\ GameServer!FramingAssumption /\ GameClient!FramingAssumption
  /\ GameServer!ServerFramingAssumption /\ ServerUnmerged!ServerFramingAssumption
  /\ GameClient!ClientFramingAssumption
  /\ ResolverShort!ResolverAssumption /\ ResolverLong!ResolverAssumption

-----------------------------------------------------------------------------
MCInit ==
  /\ Init
  /\ GameServer!Init /\ GameClient!Init
  /\ IF moves = "resolver_long" THEN ResolverLong!Init ELSE ResolverShort!Init
  /\ moves \notin {"resolver_short", "resolver_long"} => stream = <<>>

ServerMoves ==
  /\ \/ moves = "server" /\ GameServer!Next
     \/ moves = "server_unmerged" /\ ServerUnmerged!Next
  /\ UNCHANGED <<moves, netVars, client, resolver>>

ClientMoves ==
  /\ moves = "client" /\ GameClient!Next
  /\ UNCHANGED <<moves, netVars, server, resolver>>

ResolverMoves ==
  /\ \/ moves = "resolver_short" /\ ResolverShort!Next
     \/ moves = "resolver_long" /\ ResolverLong!Next
  /\ UNCHANGED <<moves, netVars, server, client>>

MCNext ==
  \/ Next /\ UNCHANGED <<server, client, resolver>>
  \/ ServerMoves \/ ClientMoves \/ ResolverMoves

MCSpec == MCInit /\ [][MCNext]_allVars

(* Bounds: two messages of the keep-alive's sides are on their way at      *)
(* once; one connection of SelectIOService receives a byte and sends one;  *)
(* TcpSvr has sends under way to one client, and, where callbacks overlap, *)
(* only while two have connected.                                          *)
FewMessages ==
  moves \in {"alive", "alive_threads"} => Len(link["server"]) + Len(link["client"]) <= 2
FewBytes == Cardinality({c \in Select!Conn : rest[c] < MaxIn \/ accepted[c] > 0}) <= 1
FewSends ==
  /\ Cardinality({c \in Client : svr_sends[c] > 0}) <= 1
  /\ moves = "svr_threads" /\ (\E c \in Client : svr_sends[c] > 0) =>
       Cardinality({c \in Client : svr_sock[c] # "none"}) <= 2

-----------------------------------------------------------------------------
(* NetEvent::onRead, Client.RecvData, TcpSvr.ReceiveData: wherever the     *)
(* network cuts the stream, server and client get each other's messages    *)
(* whole, in order and once; while no piece brings the ends of two         *)
(* messages, the server leaves none in its buffer; the datagrams of        *)
(* DatagramResolver and its rest are what has arrived, character by        *)
(* character while no receive cuts one, and byte by byte but for the first *)
(* bytes of those that were cut; each ends in the tag, and only a tag      *)
(* alone is glued to the datagram behind it.                               *)
StreamsDelivered ==
  /\ GameServer!StreamSpec
  /\ GameClient!StreamSpec
  /\ [](moves = "server" => GameServer!TypeOK)
  /\ [](moves = "client" => GameClient!TypeOK)
  /\ [](moves = "server_unmerged" => ServerUnmerged!NothingLeftBehind)
  /\ [](moves = "resolver_short" =>
           /\ ResolverShort!TypeOK /\ ResolverShort!NothingLost
           /\ ResolverShort!EndsInTag /\ ResolverShort!GluedIsEmpty)
  /\ [](moves = "resolver_long" => ResolverLong!NothingLost /\ ResolverLong!EndsInTag)
=============================================================================
