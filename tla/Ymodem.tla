------------------------------ MODULE Ymodem ------------------------------
(***************************************************************************)
(* The firmware download: rym_recv_on_device of src/rt-thread/components/  *)
(* utilities/ymodem/ymodem.c with the callbacks of src/applications/       *)
(* update.c, against a sender on the other end of a line that loses and    *)
(* damages packets and answers.                                            *)
(*                                                                         *)
(* A packet is sent and read as a whole.  A damaged one keeps its first    *)
(* byte: it lacks bytes or fails its CRC.  Headers come in 128 byte        *)
(* packets.  A sequence number is that of the block: no file has 256.  The *)
(* sender repeats only what it is asked to repeat: the receiver compares no *)
(* sequence numbers and would write a block twice that it gets twice.      *)
(***************************************************************************)
EXTENDS Integers, Sequences, SequencesExt

CONSTANTS Length,    \* file -> the number of its blocks, in the order of sending
          Tries,     \* handshake_timeout
          MaxFault   \* how often the line fails

YmodemAssumption ==
    /\ Length \in Seq(Nat) /\ Length # << >>
    /\ {Tries, MaxFault} \subseteq Nat

VARIABLES rym_at,      \* where the receiver is
          stage,   \* ctx->stage
          tries,   \* the loop counter of _rym_do_handshake
          buf,     \* ctx->buf: the payload that was read last
          disk,    \* file -> what fwrite has put into it
          cur_f,   \* the file that is open, or None
          result,  \* what rym_recv_on_device returns
          to,      \* the packets on their way to the receiver
          from,    \* the codes on their way to the sender
          sender,  \* external: what the sender waits for, and the block it sent last
          faults

recvVars == <<rym_at, stage, tries, buf, disk, cur_f, result>>

ymodemVars == <<recvVars, to, from, sender, faults>>

File == DOMAIN Length

None == 0

\* Block n of file f; block 0 is its header, and file None has only that.
Payload(f, n) == [file |-> f, block |-> n]

EOT == [code |-> "EOT"]

Packet(f, n) == [code |-> "SOH", data |-> Payload(f, n), state |-> "whole"]

Init ==
    /\ rym_at = "invite" /\ stage = "ESTABLISHING" /\ tries = 0
    /\ buf = Payload(None, 0)
    /\ disk = [f \in File |-> << >>] /\ cur_f = None
    /\ result = "none"
    /\ to = << >> /\ from = << >>
    /\ sender = [at |-> "start", file |-> 1, block |-> 0]
    /\ faults = 0

-----------------------------------------------------------------------------
(* The receiver *)

Put(codes) == from' = from \o codes

\* The session ends.  The application leaves the file as it is.
End(r) ==
    /\ rym_at' = "end" /\ result' = r
    /\ UNCHANGED <<tries, disk, cur_f>>

Fail == End("ERROR") /\ UNCHANGED <<stage, from>>

\* ymodem_on_begin opens file f, or cannot: then the session ends without a
\* word to the sender.
OnBegin(f) ==
    \/ /\ cur_f' = f /\ disk' = [disk EXCEPT ![f] = << >>]
       /\ rym_at' = "ready"
       /\ UNCHANGED <<stage, tries, result, from>>
    \/ /\ rym_at' = "end" /\ result' = "ERROR"
       /\ cur_f' = None
       /\ UNCHANGED <<stage, tries, disk, from>>

\* _rym_do_handshake sends a C ...
Invite ==
    /\ rym_at = "invite"
    /\ IF tries < Tries
       THEN /\ Put(<<"C">>) /\ rym_at' = "header"
            /\ UNCHANGED <<stage, tries, disk, cur_f, result>>
       ELSE Fail
    /\ UNCHANGED <<buf, to, sender, faults>>

\* ... and waits for an answer, again when there is none.
InviteAgain ==
    /\ rym_at = "header" /\ to = << >>
    /\ rym_at' = "invite" /\ tries' = tries + 1
    /\ UNCHANGED <<stage, buf, disk, cur_f, result, to, from, sender, faults>>

\* The receiver takes the next packet p.
Get(p) ==
    /\ to # << >> /\ p = Head(to)
    /\ to' = Tail(to)
    /\ buf' = IF p = EOT THEN buf ELSE p.data
    /\ UNCHANGED <<sender, faults>>

GetHeader(p) ==
    /\ rym_at = "header" /\ Get(p)
    /\ IF p = EOT THEN /\ rym_at' = "invite" /\ tries' = tries + 1
                       /\ UNCHANGED <<stage, disk, cur_f, result, from>>
       ELSE IF p.state = "whole" /\ p.data.block = 0 /\ p.data.file # None
       THEN OnBegin(p.data.file)
       ELSE Fail

\* _rym_do_trans begins.
Ready ==
    /\ rym_at = "ready"
    /\ Put(<<"ACK", "C">>)
    /\ rym_at' = "data" /\ stage' = "ESTABLISHED"
    /\ UNCHANGED <<tries, buf, disk, cur_f, result, to, sender, faults>>

\* A header is sent again when the sender takes a C for a NAK.
Repeated(p) == stage = "ESTABLISHED" /\ p.data.block = 0

\* Mutant: the repeated header is not recognised.
MutGetData(p) ==
    /\ rym_at = "data" /\ Get(p) /\ p # EOT
    /\ IF p.state # "whole" THEN End("ERROR") /\ stage' = "TRANSMITTING" /\ UNCHANGED from
       ELSE \/ /\ disk' = [disk EXCEPT ![cur_f] = Append(@, p.data)]
               /\ stage' = "TRANSMITTING" /\ Put(<<"ACK">>)
               /\ UNCHANGED <<rym_at, tries, cur_f, result>>
            \/ /\ End("ERROR") /\ stage' = "TRANSMITTING" /\ Put(<<"CAN">>)

\* _rym_trans_data: whatever its sequence number is, a sound packet goes to
\* ymodem_on_data, which writes it or fails.
GetData(p) ==
    /\ rym_at = "data" /\ Get(p) /\ p # EOT
    /\ IF p.state = "short" THEN Fail
       ELSE IF Repeated(p) THEN UNCHANGED <<rym_at, stage, tries, disk, cur_f, result, from>>
       ELSE IF p.state = "corrupt" THEN End("ERROR") /\ stage' = "TRANSMITTING" /\ UNCHANGED from
       ELSE \/ /\ disk' = [disk EXCEPT ![cur_f] = Append(@, p.data)]
               /\ stage' = "TRANSMITTING" /\ Put(<<"ACK">>)
               /\ UNCHANGED <<rym_at, tries, cur_f, result>>
            \/ /\ End("ERROR") /\ stage' = "TRANSMITTING" /\ Put(<<"CAN">>)

\* _rym_do_fin: ymodem_on_end writes the first 128 bytes of the buffer, which
\* are those of the packet that was read last, and closes the file.  When it
\* cannot write, the file stays open and the session goes on.
GetEnd(p) ==
    /\ rym_at = "data" /\ Get(p) /\ p = EOT
    /\ \/ /\ disk' = [disk EXCEPT ![cur_f] = Append(@, [tail |-> buf])]
          /\ cur_f' = None
       \/ UNCHANGED <<disk, cur_f>>
    /\ stage' = "FINISHING" /\ rym_at' = "second"
    /\ Put(<<"NAK">>)
    /\ UNCHANGED <<tries, result>>

GetSecondEnd(p) ==
    /\ rym_at = "second" /\ Get(p)
    /\ IF p = EOT THEN /\ Put(<<"ACK", "C">>) /\ rym_at' = "last"
                       /\ UNCHANGED <<stage, tries, disk, cur_f, result>>
       ELSE Fail

\* The header of the next file, or the one that ends the session.
GetLast(p) ==
    /\ rym_at = "last" /\ Get(p)
    /\ IF p = EOT \/ p.state # "whole" \/ p.data.block # 0 THEN Fail
       ELSE IF p.data.file # None THEN OnBegin(p.data.file)
       ELSE /\ End("EOK")
            /\ stage' = "FINISHED"
            /\ Put(<<"ACK">>)

\* RYM_WAIT_PKG_TICK pass without a packet.
WaitExpires ==
    /\ rym_at \in {"data", "second", "last"} /\ to = << >>
    /\ Fail
    /\ UNCHANGED <<buf, to, sender, faults>>

-----------------------------------------------------------------------------
(* The sender and the line, as the receiver expects them *)

Await(at) ==
    /\ sender' = [sender EXCEPT !.at = at]
    /\ UNCHANGED to

SendBlock(at, f, n) ==
    /\ to' = Append(to, Packet(f, n))
    /\ sender' = [at |-> at, file |-> f, block |-> n]

SendEnd(at) ==
    /\ to' = Append(to, EOT)
    /\ sender' = [sender EXCEPT !.at = at]

\* The next block of the file, or its end.
SendNext ==
    IF sender.block < Length[sender.file]
    THEN SendBlock("block", sender.file, sender.block + 1)
    ELSE SendEnd("end")

SendAgain ==
    IF sender.at \in {"header", "block"}
    THEN SendBlock(sender.at, sender.file, sender.block)
    ELSE SendEnd(sender.at)

NextHeader ==
    SendBlock("header", IF sender.file + 1 \in File THEN sender.file + 1 ELSE None, 0)

\* The sender reads the next code.
Answer ==
    /\ from # << >>
    /\ from' = Tail(from)
    /\ LET c  == Head(from)
           at == sender.at
       IN  CASE c = "CAN"                           -> Await("stopped")
             [] at = "start" /\ c = "C"              -> SendBlock("header", 1, 0)
             [] at = "header" /\ c \in {"C", "NAK"}  -> SendAgain
             [] at = "header" /\ c = "ACK"           ->
                    Await(IF sender.file = None THEN "done" ELSE "go")
             [] at = "go" /\ c = "C"                 -> SendNext
             [] at = "block" /\ c = "ACK"            -> SendNext
             [] at = "block" /\ c = "NAK"            -> SendAgain
             [] at = "end" /\ c = "NAK"              -> SendEnd("second end")
             [] at = "second end" /\ c = "ACK"       -> Await("next")
             [] at = "next" /\ c = "C"               -> NextHeader
             [] OTHER                                -> Await(at)
    /\ UNCHANGED <<recvVars, faults>>

Fault == faults < MaxFault /\ faults' = faults + 1 /\ UNCHANGED recvVars

\* A packet or a code is lost: the ring of the driver drops bytes when it is
\* full.
LosePacket ==
    /\ Fault /\ to # << >>
    /\ to' = Tail(to)
    /\ UNCHANGED <<from, sender>>

LoseCode ==
    /\ Fault /\ from # << >>
    /\ from' = Tail(from)
    /\ UNCHANGED <<to, sender>>

Damage(state) ==
    /\ Fault /\ to # << >> /\ Head(to) # EOT
    /\ to' = [to EXCEPT ![1].state = state]
    /\ UNCHANGED <<from, sender>>

-----------------------------------------------------------------------------
YmodemNext ==
    \/ Invite \/ InviteAgain \/ Ready \/ WaitExpires
    \/ to # << >> /\ LET p == Head(to)
                    IN  GetHeader(p) \/ GetData(p) \/ GetEnd(p) \/ GetSecondEnd(p) \/ GetLast(p)
    \/ Answer \/ LosePacket \/ LoseCode
    \/ \E state \in {"short", "corrupt"} : Damage(state)

-----------------------------------------------------------------------------
(* Properties *)

Blocks(f) == [n \in 1 .. Length[f] |-> Payload(f, n)]

\* What was received of file f, without what ymodem_on_end has added behind it.
Received(f) ==
    LET got == disk[f]
    IN  IF got # << >> /\ "tail" \in DOMAIN Last(got) THEN Front(got) ELSE got

\* Whatever is lost or damaged, a file on the disk begins as the file that was
\* sent does; when rym_recv_on_device returns RT_EOK, each file is there, once
\* and whole; and a sender that got its last ACK has sent to a receiver that
\* returned RT_EOK.
FilesTrue ==
    /\ \A f \in File : IsPrefix(Received(f), Blocks(f))
    /\ result = "EOK" => \A f \in File : Received(f) = Blocks(f)
    /\ sender.at = "done" => result = "EOK"
=============================================================================
