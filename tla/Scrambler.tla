----------------------------- MODULE Scrambler ------------------------------
(***************************************************************************)
(* The encoding of net_rpc messages (share/scrambler/scrambler.c): encode   *)
(* on the sending node, one word possibly changed on the net, decode on the *)
(* receiving one.  Words have WordSize values and LONG bytes.               *)
(***************************************************************************)
EXTENDS Integers, FiniteSetsExt, Bitwise

CONSTANTS
  LONG,           \* sizeof(long)
  WordSize,       \* values of a long
  Key,
  PORTWORD,       \* the word of an rpc that names its function: 4 in the code
  MaxWords,       \* bound on the words of a message
  Words           \* the words messages are made of
ASSUME ScramblerAssumption ==
  /\ {LONG, WordSize} \subseteq Nat \ {0} /\ Key \in 0..WordSize - 1
  /\ Words \subseteq 0..WordSize - 1
  /\ PORTWORD \in 0..MaxWords - 1 /\ LONG * MaxWords < WordSize

VARIABLES
  msg, bytes, kind,       \* the message and the arguments of the two calls
  funindx,                \* funindx[indx] of the port
  fun9,                   \* fun_args[9] of the serving task
  error,                  \* there_is_an_error
  stage,                  \* built, sent, arrived or decoded
  sent                    \* history: what was encoded, and whether it arrived whole

scrVars == <<msg, bytes, kind, funindx, fun9, error, stage, sent>>

Port == {"PRT_REQ", "PRT_RTR"}
Rpc == {"RPC_REQ", "RPC_RTR"}
\* The call of decode that meets an encode, on the other node.
Peer == [PRT_REQ |-> "PRT_SRV", PRT_RTR |-> "PRT_RCV",
         RPC_REQ |-> "RPC_SRV", RPC_RTR |-> "RPC_RCV"]

\* The fields of the port word that matter here.
EXT(w) == w % 2
FUN(w) == w \div 2
PackExt == 1

XTOLONGSIZE(s) == (s + LONG - 1) \div LONG

memfrob(m, s) ==
  [j \in DOMAIN m |-> IF j < XTOLONGSIZE(s) THEN m[j] ^^ Key ELSE m[j]]
SumOf(m, n) == MapThenSumSet(LAMBDA j : m[j], 0..n - 1) % WordSize
chksum(m, s) == [m EXCEPT ![XTOLONGSIZE(s)] = SumOf(m, XTOLONGSIZE(s))]
-----------------------------------------------------------------------------
\* An rpc reaches its port word; a port request keeps its last word for the sum.
\* Behind the message there is room for two words.
ScrInit ==
  /\ kind \in Port \union Rpc
  /\ bytes \in LONG * (PORTWORD + 1)..LONG * MaxWords
  /\ \E m \in [0..XTOLONGSIZE(bytes) - 1 -> Words] :
       msg = [j \in 0..MaxWords + 1 |-> IF j \in DOMAIN m THEN m[j] ELSE 0]
  /\ funindx = 0 /\ fun9 = 0 /\ error = FALSE /\ stage = "built"
  /\ sent = [msg |-> msg, bytes |-> bytes, whole |-> TRUE]

\* The size goes behind the words, and the sum behind the size.
SummedFirst(n) == [chksum(msg, LONG * n + LONG) EXCEPT ![n] = bytes]
SizedAt(n) == chksum([msg EXCEPT ![n] = bytes], LONG * n + LONG)
Encode ==
  /\ stage = "built" /\ stage' = "sent"
  /\ LET n == XTOLONGSIZE(bytes) IN
     IF kind \in Port
     THEN /\ msg' = memfrob(chksum(msg, bytes - LONG), bytes)
          /\ funindx' = -1
          /\ UNCHANGED bytes
     ELSE /\ bytes' = LONG * n + 2 * LONG
          /\ msg' = memfrob(SizedAt(n), bytes')
          /\ funindx' = IF EXT(SizedAt(n)[PORTWORD]) = 0
                        THEN FUN(SizedAt(n)[PORTWORD]) + 1 ELSE funindx
  /\ UNCHANGED <<kind, fun9, error, sent>>

\* The net, which may change a word.
Deliver ==
  /\ stage = "sent" /\ stage' = "arrived" /\ kind' = Peer[kind]
  /\ UNCHANGED <<msg, bytes, funindx, fun9, error, sent>>
Corrupt ==
  /\ stage = "sent" /\ stage' = "arrived" /\ kind' = Peer[kind]
  /\ \E j \in 0..XTOLONGSIZE(bytes) - 1, w \in 0..WordSize - 1 :
       w # msg[j] /\ msg' = [msg EXCEPT ![j] = w]
  /\ sent' = [sent EXCEPT !.whole = FALSE]
  /\ UNCHANGED <<bytes, funindx, fun9, error>>

\* A request that is not for a function of this module is sent to errfun, which
\* calls the function remembered in fun_args[9].
Redirect(m) ==
  IF EXT(m[PORTWORD]) = 0 THEN [m EXCEPT ![PORTWORD] = PackExt] ELSE m
Differs(old, new) == old # new
Decode ==
  /\ stage = "arrived" /\ stage' = "decoded"
  /\ LET m == memfrob(msg, bytes)
         s == bytes - LONG
         c == chksum(m, s)
     IN  /\ error' = Differs(m[XTOLONGSIZE(s)], c[XTOLONGSIZE(s)])
         /\ bytes' = IF kind \in {"RPC_SRV", "RPC_RCV"}
                    THEN c[(bytes \div LONG) - 2] ELSE bytes
         /\ msg' = IF kind = "RPC_SRV" THEN Redirect(c) ELSE c
         /\ fun9' = IF kind = "RPC_SRV" THEN FUN(c[PORTWORD]) ELSE fun9
  /\ UNCHANGED <<kind, funindx, sent>>

ScrEnded == stage = "decoded" /\ UNCHANGED scrVars
ScrNext == Encode \/ Deliver \/ Corrupt \/ Decode \/ ScrEnded
-----------------------------------------------------------------------------
\* The function a request leads to: its own, or the one errfun calls.
Called(m) == IF m[PORTWORD] = PackExt THEN fun9 ELSE FUN(m[PORTWORD])

\* decode gives back what encode was given, of the same size, and no error; a served
\* request leads to the function it names (scrambler.c:132-167, 172-261).  A change of
\* any one word, the size and the sum among them, is reported (scrambler.c:189).
Restored ==
  stage = "decoded" => IF ~ sent.whole THEN error ELSE
    /\ bytes = sent.bytes /\ ~ error
    /\ \A j \in 0..XTOLONGSIZE(bytes) - 1 :
         \/ msg[j] = sent.msg[j]
         \/ kind \in {"PRT_SRV", "PRT_RCV"} /\ j = XTOLONGSIZE(bytes) - 1
         \/ kind = "RPC_SRV" /\ j = PORTWORD
    /\ kind = "RPC_SRV" => Called(msg) = FUN(sent.msg[PORTWORD])
=============================================================================
