------------------------------ MODULE UdpServer ------------------------------
(***************************************************************************)
(* A UDP server channel and its children (gudp/udpserverchannel.go): the   *)
(* accept loop makes a child of every datagram it reads, of a client that  *)
(* has one already too, and the readers of all children                    *)
(* (channel/netchannel.go) read from the same socket, with the same        *)
(* deadline.  The buffers they read into come from the pool of large       *)
(* buffers (utils/bufferpool.go), so that the accept loop and the readers  *)
(* pass buffers to each other.  A child's BufferSize is above the medium   *)
(* pool's, and that of the children in Pooled is the large pool's; every   *)
(* datagram fits.                                                          *)
(*                                                                         *)
(* What the network loses, duplicates and reorders is only seen as what    *)
(* arrives: a datagram is its client and the number of its arrival.  Those *)
(* of the numbers in NoBytes are empty, which is to be read as nothing.    *)
(***************************************************************************)
EXTENDS Naturals, Sequences, FiniteSets

CONSTANTS Clients,      \* remote addresses
          Children,     \* bound: channels that the accept loop derives
          Pooled,       \* those of them whose BufferSize is the pool's
          Buffers,      \* bound: buffers that the pool has made
          NoBytes,      \* which of the arriving datagrams are empty
          MaxArrivals   \* bound: datagrams that arrive

\* No address is that of a channel which is not derived yet.
ASSUME ClientsAssumption == "none" \notin Clients
ASSUME PooledAssumption == Pooled \subseteq Children

VARIABLES
  arrived,   \* number of datagrams that arrived
  socket,    \* datagrams in the socket, in whatever order
  bound,     \* ServerChannel.active, and the socket is open
  closing,   \* Close has taken the children down
  pool,      \* buffers in LargeBufferPool
  content,   \* what a buffer holds
  accept,    \* the accept loop: where it is, its buffer
  client,    \* UDPClientConn.clientAddr of a child
  first,     \* UDPClientConn.lastData: the copy, and the buffer it was copied from
  firstRead, \* UDPClientConn.firstRead
  active,    \* the child is active
  reader,    \* the child's reader: where it is, its buffer
  got,       \* what the child's pipeline got by FireRead, in order
  dropped    \* history: datagrams read, or closed over, that no pipeline will get

netVars == <<arrived, socket>>
childVars == <<client, first, firstRead, active>>
udpVars == <<arrived, socket, bound, closing, pool, content, accept, client, first,
          firstRead, active, reader, got, dropped>>

None == "none"
Clear == <<>>
Nothing == [data |-> Clear, buf |-> None]

UdpInit ==
  /\ arrived = 0 /\ socket = {}
  /\ bound = TRUE /\ closing = FALSE
  /\ pool = {} /\ content = [b \in Buffers |-> Clear]
  /\ accept = [at |-> "loop", buf |-> None]
  /\ client = [k \in Children |-> None]
  /\ first = [k \in Children |-> Nothing]
  /\ firstRead = [k \in Children |-> FALSE]
  /\ active = [k \in Children |-> FALSE]
  /\ reader = [k \in Children |-> [at |-> "off", buf |-> None]]
  /\ got = [k \in Children |-> <<>>]
  /\ dropped = {}

-----------------------------------------------------------------------------
\* A datagram of a client arrives.
Arrive(c) ==
  /\ bound /\ arrived < MaxArrivals
  /\ socket' = socket \cup {<<c, arrived>>}
  /\ arrived' = arrived + 1
  /\ UNCHANGED <<bound, closing, pool, content, accept, childVars, reader, got,
                 dropped>>

Client(d) == d[1]
Empty(d) == d[2] \in NoBytes

-----------------------------------------------------------------------------
\* The pool: Get takes a buffer, or a new one, and clears it.

InUse == {accept.buf} \cup {reader[k].buf : k \in Children}

GetLargeBuffer(b) ==
  /\ b \in pool \/ (pool = {} /\ b \in Buffers \ InUse)
  /\ pool' = pool \ {b}
  /\ content' = [content EXCEPT ![b] = Clear]

PutLargeBuffer(b) == pool' = pool \cup {b}

\* A smaller size gets the front part of a pool's buffer, which ...
GetWithSize(b) == GetLargeBuffer(b)
GetBufferForSize(b) == GetWithSize(b)

\* ... is left to the garbage collector, as it has not the pool's size any more.
PutBufferForSize(k, b) ==
  IF k \in Pooled THEN PutLargeBuffer(b) ELSE UNCHANGED pool

-----------------------------------------------------------------------------
\* The accept loop (channel/unsafe.go) and UnsafeAccept.

UnsafeAccept ==
  /\ accept.at = "loop"
  /\ IF bound
     THEN \E b \in Buffers : /\ GetLargeBuffer(b)
                             /\ accept' = [at |-> "read", buf |-> b]
     ELSE /\ accept' = [at |-> "off", buf |-> None]
          /\ UNCHANGED <<pool, content>>
  /\ UNCHANGED <<netVars, bound, closing, childVars, reader, got, dropped>>

\* ReadFromUDP takes a datagram ...
AcceptRead ==
  /\ accept.at = "read" /\ bound
  /\ \E d \in socket : /\ socket' = socket \ {d}
                       /\ content' = [content EXCEPT ![accept.buf] = d]
  /\ accept' = [accept EXCEPT !.at = "derive"]
  /\ UNCHANGED <<arrived, bound, closing, pool, childVars, reader, got, dropped>>

\* A child sets its deadlines on the socket that all share.
DeadlineSet == \E k \in Children : reader[k].at # "off"

\* ... or fails, at the deadline that some child set or because the socket is
\* closed: the loop goes on without a child.
AcceptError ==
  /\ accept.at = "read"
  /\ ~bound \/ DeadlineSet
  /\ PutLargeBuffer(accept.buf)
  /\ accept' = [at |-> "loop", buf |-> None]
  /\ UNCHANGED <<netVars, bound, closing, content, childVars, reader, got, dropped>>

\* A child of the datagram's client, with a copy of the datagram, which nothing
\* will ask for if it is empty; the buffer goes back to the pool, and a goroutine
\* activates the child.
DeriveChild(k) ==
  /\ accept.at = "derive" /\ client[k] = None
  /\ LET d == content[accept.buf] IN
       /\ client' = [client EXCEPT ![k] = Client(d)]
       /\ first' = [first EXCEPT ![k] = [data |-> d, buf |-> accept.buf]]
       /\ dropped' = dropped \cup {e \in {d} : Empty(e)}
  /\ PutLargeBuffer(accept.buf)
  /\ accept' = [at |-> "loop", buf |-> None]
  /\ UNCHANGED <<netVars, bound, closing, content, firstRead, active, reader, got>>

-----------------------------------------------------------------------------
\* A child.

\* activeChannel, and Read, which starts the reader.
ActiveChild(k) ==
  /\ client[k] # None /\ reader[k].at = "off"
  /\ active' = [active EXCEPT ![k] = TRUE]
  /\ reader' = [reader EXCEPT ![k].at = "loop"]
  /\ UNCHANGED <<netVars, bound, closing, pool, content, accept, client, first, firstRead,
                 got, dropped>>

\* The child goes down; Close of its connection leaves the socket open.
ChildDown(k) ==
  /\ active[k]
  /\ active' = [active EXCEPT ![k] = FALSE]
  /\ UNCHANGED <<netVars, bound, closing, pool, content, accept, client, first, firstRead,
                 reader, got, dropped>>

\* The reader's loop, and DefaultNetChannel.UnsafeRead.
ReaderLoop(k) ==
  /\ reader[k].at = "loop"
  /\ IF active[k]
     THEN \E b \in Buffers : /\ GetBufferForSize(b)
                             /\ reader' = [reader EXCEPT ![k] = [at |-> "read", buf |-> b]]
     ELSE /\ reader' = [reader EXCEPT ![k].at = "end"]
          /\ UNCHANGED <<pool, content>>
  /\ UNCHANGED <<netVars, bound, closing, accept, childVars, got, dropped>>

\* Mutant: the first datagram is still in the buffer of UnsafeAccept.
FirstDataAliased(k) == content[first[k].buf]

FirstData(k) == first[k].data

\* Mutant: the first read stays the first.
MarkFirstNever(k) == UNCHANGED firstRead

MarkFirst(k) == firstRead' = [firstRead EXCEPT ![k] = TRUE]

\* The first datagram is still to be read, unless it is empty.
FirstLeft(k) == ~firstRead[k] /\ ~Empty(first[k].data)

\* The first read of the connection returns the first datagram ...
ReadFirst(k) ==
  /\ reader[k].at = "read" /\ FirstLeft(k)
  /\ MarkFirst(k)
  /\ content' = [content EXCEPT ![reader[k].buf] = FirstData(k)]
  /\ reader' = [reader EXCEPT ![k].at = "fire"]
  /\ UNCHANGED <<netVars, bound, closing, pool, accept, client, first, active, got, dropped>>

FromClient(k, d) == Client(d) = client[k]

\* ... and later ones read until a datagram is of the child's client.  If that one
\* is empty UnsafeRead skips it: the buffer is put back and the reader goes on.
ReadSocket(k) ==
  /\ reader[k].at = "read" /\ ~FirstLeft(k) /\ bound
  /\ \E d \in socket :
       /\ socket' = socket \ {d}
       /\ content' = [content EXCEPT ![reader[k].buf] = d]
       /\ \/ /\ FromClient(k, d) /\ ~Empty(d)
             /\ reader' = [reader EXCEPT ![k].at = "fire"]
             /\ UNCHANGED <<pool, dropped>>
          \/ /\ FromClient(k, d) /\ Empty(d)
             /\ PutBufferForSize(k, reader[k].buf)
             /\ reader' = [reader EXCEPT ![k] = [at |-> "loop", buf |-> None]]
             /\ dropped' = dropped \cup {d}
          \/ /\ ~FromClient(k, d)
             /\ dropped' = dropped \cup {d}
             /\ UNCHANGED <<pool, reader>>
  /\ UNCHANGED <<arrived, bound, closing, accept, childVars, got>>

\* The deadline, whoever set it, or the socket is closed: the reader tries again
\* if the channel is up and the socket open, else it takes the channel down.
ReadError(k) ==
  /\ reader[k].at = "read" /\ ~FirstLeft(k)
  /\ PutBufferForSize(k, reader[k].buf)
  /\ reader' = [reader EXCEPT ![k] =
                 [at |-> IF bound /\ active[k] THEN "loop" ELSE "end", buf |-> None]]
  /\ active' = [active EXCEPT ![k] = @ /\ bound]
  /\ UNCHANGED <<netVars, bound, closing, content, accept, client, first, firstRead, got,
                 dropped>>

\* What was read is copied, the buffer put back, and FireRead called, also when
\* the channel went down meanwhile.
ReaderFires(k) ==
  /\ reader[k].at = "fire"
  /\ got' = [got EXCEPT ![k] = Append(@, content[reader[k].buf])]
  /\ PutBufferForSize(k, reader[k].buf)
  /\ reader' = [reader EXCEPT ![k] = [at |-> "loop", buf |-> None]]
  /\ UNCHANGED <<netVars, bound, closing, content, accept, childVars, dropped>>

-----------------------------------------------------------------------------
\* Close: first the children (ServerAccept shows how), then UnsafeClose.
Close ==
  /\ bound /\ ~closing
  /\ closing' = TRUE
  /\ active' = [k \in Children |-> FALSE]
  /\ UNCHANGED <<netVars, bound, pool, content, accept, client, first, firstRead, reader,
                 got, dropped>>

UnsafeClose ==
  /\ closing /\ bound
  /\ bound' = FALSE
  /\ socket' = {}
  /\ dropped' = dropped \cup socket
  /\ UNCHANGED <<arrived, closing, pool, content, accept, childVars, reader, got>>

UdpNext ==
  \/ UnsafeAccept \/ AcceptRead \/ AcceptError \/ Close \/ UnsafeClose
  \/ \E c \in Clients : Arrive(c)
  \/ \E k \in Children :
       \/ DeriveChild(k) \/ ActiveChild(k) \/ ChildDown(k)
       \/ ReaderLoop(k) \/ ReadFirst(k) \/ ReadSocket(k) \/ ReadError(k) \/ ReaderFires(k)

UdpSpec == UdpInit /\ [][UdpNext]_udpVars

-----------------------------------------------------------------------------
\* A child's pipeline gets datagrams of the child's client only, whole and as they
\* were sent, whatever became of the buffers they were read into
\* (UDPClientConn.Read, UnsafeAccept's copy).
OwnDatagrams ==
  \A k \in Children : \A i \in 1..Len(got[k]) :
    got[k][i] # Clear /\ Client(got[k][i]) = client[k]

\* Where the datagrams are that arrived: in the socket, in the hand of the accept
\* loop or of a reader, waiting as a child's first, or with a pipeline.
InHand ==
  {content[g.buf] : g \in {h \in {accept} \cup {reader[k] : k \in Children} :
                              h.at \in {"derive", "fire"}}}
Waiting == {first[k].data : k \in {j \in Children : client[j] # None /\ FirstLeft(j)}}
Given(k) == {got[k][i] : i \in 1..Len(got[k])}

\* Each datagram that arrives reaches at most one pipeline, once.  It is lost only
\* when a child of another client reads it, when the socket is closed, or when it is
\* empty, be it a child's first (UDPClientConn.Read passes it over) or a later one
\* (UnsafeRead skips it); or it waits in a child that is never read.  The readers
\* and the accept loop share one socket and one pool.
EachDatagramOnce ==
  /\ \A k \in Children : Cardinality(Given(k)) = Len(got[k])
  /\ \A k, j \in Children : k # j => Given(k) \cap Given(j) = {}
  /\ LET given == UNION {Given(k) : k \in Children}
         kept  == socket \cup InHand \cup Waiting
     IN  /\ Cardinality(given \cup dropped \cup kept) = arrived
         /\ given \cap (dropped \cup kept) = {}
         /\ \A d \in given : ~Empty(d)

=============================================================================
