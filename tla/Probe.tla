-------------------------------- MODULE Probe --------------------------------
(***************************************************************************)
(* The probe's server (apps/probe): what becomes of one request, whichever *)
(* handler it is for.  The sweep is that of DnsblSweep.  The handlers that *)
(* try something out go through stages, each under a limit of its own, and *)
(* then write their answer; the speed test moves bytes; the WebSocket      *)
(* echoes.  Over them stand the timeouts of the http.Server: a write later *)
(* than WriteTimeout after the request is lost (the handler is not told),  *)
(* as is one to a client that has gone; no body is read after ReadTimeout. *)
(* Times are seconds.                                                      *)
(***************************************************************************)
EXTENDS DnsblSweep, Sequences

CONSTANTS
  NoLimit,            \* stands for the limit of a stage that has none
  MaxResolving,       \* bound on the seconds of resolving that are followed
  WriteTimeout,       \* 20
  ReadTimeout,        \* 15
  MaxSpeedBytes,      \* 200 MiB
  DefaultSpeedBytes,  \* 25 MiB
  Chunk,              \* 64 KiB
  EchoRead,           \* 60, how long the echo waits for a message
  EchoWrite,          \* 10, and for the peer to take it back
  MaxMessages         \* bound on the messages of the peer

ASSUME ProbeAssumption ==
  /\ {MaxResolving, WriteTimeout, ReadTimeout, EchoRead, EchoWrite, MaxMessages} \subseteq Nat
  /\ NoLimit \notin Nat
  /\ 8 + 8 < WriteTimeout /\ ReadTimeout < WriteTimeout
  /\ {MaxSpeedBytes, DefaultSpeedBytes, Chunk} \subseteq Nat \ {0}
  /\ DefaultSpeedBytes <= MaxSpeedBytes

VARIABLES
  handler,   \* which handler the request is for
  at,        \* where it is
  stage,     \* the stage it is in
  until,     \* when the limit of the stage, or of the echo's wait, is reached
  resolved,  \* when the stage without a limit was over (history)
  total,     \* how many bytes are to be moved
  moved,     \* how many have been
  sent,      \* how many messages the peer has sent
  taken,     \* how many the echo has read
  echoed,    \* the messages it has written back
  answer     \* what became of the response

probeOnly == <<handler, at, stage, until, resolved, total, moved, sent, taken, echoed, answer>>
probeVars == <<vars, probeOnly>>

(* A plausible slip: the banner is awaited without a deadline. *)
Stages_NoReadDeadline(h) ==
  CASE h = "dns" -> <<NoLimit>>
    [] h = "tcp" -> <<6>>
    [] h = "http" -> <<10>>
    [] h = "ping" -> <<NoLimit, 8>>
    [] h = "traceroute" -> <<NoLimit, 11>>
    [] h = "smtp" -> <<8, NoLimit>>
    [] h = "ssl" -> <<8, 8>>

(* A dialer's timeout covers the resolving of the name.  handleDNS and     *)
(* assertHostPublic give the system's resolver no limit.                   *)
Stages(h) ==
  CASE h = "dns" -> <<NoLimit>>
    [] h = "tcp" -> <<6>>
    [] h = "http" -> <<10>>
    [] h = "ping" -> <<NoLimit, 8>>
    [] h = "traceroute" -> <<NoLimit, 11>>
    [] h = "smtp" -> <<8, 6>>
    [] h = "ssl" -> <<8, 8>>

Staged == {"dns", "tcp", "http", "ping", "traceroute", "smtp", "ssl"}
Handlers == Staged \cup {"dnsbl", "download", "upload", "ws"}

ProbeInit ==
  /\ Init
  /\ handler \in Handlers
  /\ at = "start" /\ stage = 0 /\ until = 0 /\ resolved = 0
  /\ total = 0 /\ moved = 0
  /\ sent = 0 /\ taken = 0 /\ echoed = <<>>
  /\ answer = "none"

End(what) == at' = "ended" /\ answer' = what

(* writeJSON, as the last thing the handler does. *)
WriteJSON == End(IF gone \/ now >= WriteTimeout THEN "lost" ELSE "delivered")

-----------------------------------------------------------------------------
(* The key or a parameter is missing, the upgrade is refused, or it was    *)
(* only a preflight.                                                       *)
Refuse ==
  /\ at = "start"
  /\ End("refused")
  /\ UNCHANGED <<vars, handler, resolved, stage, until, total, moved, sent, taken, echoed>>

(* handleHTTP drops the error of NewRequestWithContext.  A url that does   *)
(* not parse leaves it without a request: it panics, and net/http closes   *)
(* the connection without an answer.                                       *)
Panics ==
  /\ at = "start" /\ handler = "http"
  /\ End("aborted")
  /\ UNCHANGED <<vars, handler, resolved, stage, until, total, moved, sent, taken, echoed>>

EnterStage(i) ==
  /\ at' = "stage" /\ stage' = i
  /\ until' = IF Stages(handler)[i] = NoLimit THEN NoLimit ELSE now + Stages(handler)[i]
  /\ UNCHANGED answer

Enter ==
  /\ at = "start" /\ handler \in Staged
  /\ EnterStage(1)
  /\ UNCHANGED <<vars, handler, resolved, total, moved, sent, taken, echoed>>

(* The stage succeeds, or fails, as it does when its limit is reached or   *)
(* the context is cancelled; after a failure there is nothing but the      *)
(* answer to be written.                                                   *)
StageEnds ==
  /\ at = "stage"
  /\ \/ stage < Len(Stages(handler)) /\ EnterStage(stage + 1)
     \/ WriteJSON /\ UNCHANGED <<stage, until>>
  /\ resolved' = IF until = NoLimit THEN now ELSE resolved
  /\ UNCHANGED <<vars, handler, total, moved, sent, taken, echoed>>

-----------------------------------------------------------------------------
(* handleDNSBL *)
Sweeping ==
  /\ at = "start" /\ handler = "dnsbl"
  /\ at' = "sweep"
  /\ UNCHANGED <<vars, handler, resolved, stage, until, total, moved, sent, taken, echoed, answer>>

SweepStep ==
  /\ at = "sweep"
  /\ Spawn \/ (\E z \in Zones : Goroutine(z)) \/ Tick
  /\ UNCHANGED probeOnly

SweepResponds ==
  /\ at = "sweep"
  /\ Respond
  /\ WriteJSON
  /\ UNCHANGED <<handler, resolved, stage, until, total, moved, sent, taken, echoed>>

-----------------------------------------------------------------------------
(* handleSpeedDownload: an amount out of bounds is replaced. *)
Length(n) == IF n <= 0 \/ n > MaxSpeedBytes THEN DefaultSpeedBytes ELSE n

StartDownload(n) ==
  /\ at = "start" /\ handler = "download"
  /\ at' = "download" /\ total' = Length(n)
  /\ UNCHANGED <<vars, handler, resolved, stage, until, moved, sent, taken, echoed, answer>>

(* A plausible slip: the last write is as long as the others. *)
Piece_Whole == Chunk

Piece == IF total - moved < Chunk THEN total - moved ELSE Chunk

WriteChunk ==
  /\ at = "download" /\ moved < total
  /\ ~gone /\ now < WriteTimeout
  /\ moved' = moved + Piece
  /\ UNCHANGED <<vars, handler, resolved, at, stage, until, total, sent, taken, echoed, answer>>

DownloadEnds ==
  /\ at = "download"
  /\ \/ moved >= total /\ End("delivered")
     \/ moved < total /\ (gone \/ now >= WriteTimeout) /\ End("cut off")
  /\ UNCHANGED <<vars, handler, resolved, stage, until, total, moved, sent, taken, echoed>>

(* handleSpeedUpload: io.Copy, of as much as is allowed; why it ended is   *)
(* not looked at.                                                          *)
StartUpload(n) ==
  /\ at = "start" /\ handler = "upload"
  /\ at' = "upload" /\ total' = n
  /\ UNCHANGED <<vars, handler, resolved, stage, until, moved, sent, taken, echoed, answer>>

Wanted == IF total < MaxSpeedBytes THEN total ELSE MaxSpeedBytes

BytesArrive ==
  /\ at = "upload" /\ moved < Wanted
  /\ ~gone /\ now < ReadTimeout
  /\ moved' = moved + 1
  /\ UNCHANGED <<vars, handler, resolved, at, stage, until, total, sent, taken, echoed, answer>>

UploadEnds ==
  /\ at = "upload"
  /\ moved = Wanted \/ gone \/ now >= ReadTimeout
  /\ WriteJSON
  /\ UNCHANGED <<vars, handler, resolved, stage, until, total, moved, sent, taken, echoed>>

-----------------------------------------------------------------------------
(* handleWS.  The connection is hijacked: only the loop's own deadlines    *)
(* count.                                                                  *)
AwaitMessage == at' = "reading" /\ until' = now + EchoRead

Accept ==
  /\ at = "start" /\ handler = "ws"
  /\ AwaitMessage
  /\ UNCHANGED <<vars, handler, resolved, stage, total, moved, sent, taken, echoed, answer>>

PeerSends ==
  /\ at \in {"reading", "writing"} /\ ~gone
  /\ sent < MaxMessages
  /\ sent' = sent + 1
  /\ UNCHANGED <<vars, handler, resolved, at, stage, until, total, moved, taken, echoed, answer>>

EchoReads ==
  /\ at = "reading" /\ taken < sent
  /\ taken' = taken + 1
  /\ at' = "writing" /\ until' = now + EchoWrite
  /\ UNCHANGED <<vars, handler, resolved, stage, total, moved, sent, echoed, answer>>

EchoWrites ==
  /\ at = "writing" /\ ~gone
  /\ echoed' = Append(echoed, taken)
  /\ AwaitMessage
  /\ UNCHANGED <<vars, handler, resolved, stage, total, moved, sent, taken, answer>>

(* A plausible slip: the loop goes on after a write that has failed. *)
EchoFails_GoesOn ==
  /\ at \in {"reading", "writing"}
  /\ gone \/ now >= until
  /\ IF at = "writing" THEN AwaitMessage /\ UNCHANGED answer
     ELSE End("closed") /\ UNCHANGED until
  /\ UNCHANGED <<vars, handler, resolved, stage, total, moved, sent, taken, echoed>>

EchoFails ==
  /\ at \in {"reading", "writing"}
  /\ gone \/ now >= until
  /\ End("closed")
  /\ UNCHANGED <<vars, handler, resolved, stage, until, total, moved, sent, taken, echoed>>

-----------------------------------------------------------------------------
(* Time passes while the handler waits: for a stage, for the peer, or for  *)
(* a client that is slow, which the server's own timeouts end.             *)
Waits ==
  \/ at = "stage" /\ until = NoLimit /\ now < MaxResolving
  \/ at \in {"stage", "reading", "writing"} /\ until # NoLimit /\ now < until
  \/ at = "download" /\ now < WriteTimeout
  \/ at = "upload" /\ now < ReadTimeout

TimePasses ==
  /\ Waits /\ ~gone
  /\ now' = now + 1
  /\ UNCHANGED <<spawned, pc, sem, wg, deadline, began, results, responses, gone, probeOnly>>

Leaves ==
  /\ at # "ended"
  /\ ClientLeaves
  /\ UNCHANGED probeOnly

Amounts == 0 .. (MaxSpeedBytes + 1)

Handle ==
  \/ Refuse \/ Panics \/ Enter \/ StageEnds
  \/ Sweeping \/ SweepResponds
  \/ \E n \in Amounts : StartDownload(n) \/ StartUpload(n)
  \/ WriteChunk \/ DownloadEnds \/ UploadEnds
  \/ Accept \/ EchoReads \/ EchoWrites \/ EchoFails

ProbeNext ==
  \/ Handle \/ SweepStep
  \/ BytesArrive \/ PeerSends
  \/ TimePasses \/ Leaves

(* The Go scheduler runs what can run, timers fire, and the resolver ends  *)
(* at some time.  Nothing is expected of the peer: bytes and messages need *)
(* not arrive.                                                             *)
ProbeSpec ==
  /\ ProbeInit /\ [][ProbeNext]_probeVars
  /\ WF_probeVars(Handle) /\ WF_probeVars(TimePasses)
  /\ WF_probeVars(at = "sweep" /\ Spawn /\ UNCHANGED probeOnly)
  /\ WF_probeVars(at = "sweep" /\ Tick /\ UNCHANGED probeOnly)
  /\ \A z \in Zones : WF_probeVars(at = "sweep" /\ Goroutine(z) /\ UNCHANGED probeOnly)

-----------------------------------------------------------------------------
(* The limits of the stages, one after the other, leave time to write the  *)
(* answer ("WriteTimeout: 20 * time.Second", main.go:594).  It is lost only *)
(* if the client has gone; or if the handler resolves a name without a     *)
(* limit (main.go:188, 251, 334) and that takes until the server's timeout, *)
(* less the limit of what comes after; or if all batches of a sweep take   *)
(* as long.  The sweep takes at most one timeout for each batch of         *)
(* Capacity zones, so that fewer than five batches of 4 s are in time.     *)
ResolvingTakes(t) ==
  CASE handler = "dns" -> resolved >= t
    [] handler = "ping" -> resolved + 8 >= t
    [] handler = "traceroute" -> resolved + 11 >= t
    [] OTHER -> FALSE

SweepsTake(t) == handler = "dnsbl" /\ ((N + Capacity - 1) \div Capacity) * Timeout >= t

AnswersAreDelivered ==
  /\ answer = "lost" => gone \/ ResolvingTakes(WriteTimeout) \/ SweepsTake(WriteTimeout)
  /\ handler = "dnsbl" => SweepTakesItsTime

(* The speed test moves what it says: a download that was not cut off has  *)
(* as many bytes as its content-length and never more, and an upload ends  *)
(* short of its body only at the cap, the timeout or the client's hand.    *)
TransfersAreCounted ==
  /\ handler = "download" =>
       /\ total <= MaxSpeedBytes /\ moved <= total
       /\ answer = "delivered" => moved = total /\ total > 0
       /\ answer = "cut off" => gone \/ now >= WriteTimeout
  /\ handler = "upload" /\ at = "ended" =>
       \/ moved = total /\ total <= MaxSpeedBytes
       \/ moved = MaxSpeedBytes
       \/ gone \/ now >= ReadTimeout

(* The echo sends back what it was sent: every message once, in the order  *)
(* of their coming, and at the end all but the one it could not write.     *)
EchoesInOrder ==
  /\ echoed = [i \in 1 .. Len(echoed) |-> i]
  /\ taken <= sent
  /\ at = "reading" => Len(echoed) = taken
  /\ at = "ended" => taken - Len(echoed) <= 1

(* Every request is over in the end, with peers that stop reading, writing *)
(* or both, clients that leave, and goroutines that wait for each other's  *)
(* places.                                                                 *)
EveryRequestEnds == <>(at = "ended")

=============================================================================
