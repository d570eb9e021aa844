------------------------------- MODULE Smbus --------------------------------
(***************************************************************************)
(* The SCD's SMBus accelerator as internal/platformhal/scdsmbus drives it: *)
(* requests are put into a queue word by word, the accelerator answers     *)
(* each with a response, and one user at a time waits for the responses    *)
(* and drains them.  A user is killed anywhere and the next one finds what *)
(* it left; a device may not acknowledge, the bus may hang, and a reset    *)
(* may not clear the accelerator.                                          *)
(*                                                                         *)
(* Assumed of the hardware: by the time a user has polled two hundred      *)
(* times the accelerator has answered the whole transfer or none of it,    *)
(* and a word the device did not acknowledge fails the rest of its         *)
(* transfer.                                                               *)
(***************************************************************************)
EXTENDS Integers, Sequences

CONSTANTS Registers, Values,   \* of the device behind the accelerator
          MaxTransfers,        \* transfers begun
          MaxFaults            \* kills, hangs and failed resets

VARIABLES dev,       \* the device's registers
          latched,   \* the register the device will answer for
          nak,       \* the transfer being executed was not acknowledged
          csRst,     \* the reset bit
          req,       \* requests not executed, csNRQ of them
          resp,      \* responses not read, csNRS of them
          hung,      \* the accelerator executes nothing
          user,      \* [pc, op, reg, val, sent, got]
          transfers, faults

smbVars == <<dev, latched, nak, csRst, req, resp, hung, user, transfers, faults>>
accelerator == <<dev, latched, nak, csRst, req, resp, hung>>

NoUser == [pc |-> "off", op |-> "read", reg |-> 0, val |-> 0, sent |-> 0, got |-> 0]

(* The words of a transfer: the register index is written, then a byte is read back
   or the value written. *)
smbReq(kind, d) == [kind |-> kind, d |-> d]
readWords(r) == <<smbReq("address", 0), smbReq("index", r), smbReq("address", 1), smbReq("fetch", 0)>>
writeWords(r, v) == <<smbReq("address", 0), smbReq("index", r), smbReq("store", v)>>
Words == IF user.op = "read" THEN readWords(user.reg) ELSE writeWords(user.reg, user.val)

csIdle == req = <<>> /\ resp = <<>>

SmbInit ==
    /\ dev \in [Registers -> Values]
    /\ latched \in Registers
    /\ csRst \in BOOLEAN
    /\ req = <<>> /\ resp = <<>> /\ hung = FALSE /\ nak = FALSE
    /\ user = NoUser /\ transfers = 0 /\ faults = 0
-----------------------------------------------------------------------------
(* A user begins ReadReg or WriteReg. *)
Begin(op, r, v) ==
    /\ user.pc \in {"off", "ok", "error"} /\ transfers < MaxTransfers
    /\ user' = [NoUser EXCEPT !.pc = "enter", !.op = op, !.reg = r, !.val = v]
    /\ transfers' = transfers + 1
    /\ UNCHANGED <<accelerator, faults>>

smbEnterAsFound ==     \* mutant: the leftovers are not cleared
    /\ user.pc = "enter"
    /\ csRst' = FALSE
    /\ user' = [user EXCEPT !.pc = "send"]
    /\ UNCHANGED <<dev, latched, nak, req, resp, hung, transfers, faults>>

(* smbEnter: a reset left asserted is released, then an accelerator that is not
   idle is reset and released once it reads idle. *)
smbEnter ==
    /\ user.pc = "enter"
    /\ csRst' = ~csIdle
    /\ user' = [user EXCEPT !.pc = IF csIdle THEN "send" ELSE "reset"]
    /\ UNCHANGED <<dev, latched, nak, req, resp, hung, transfers, faults>>

smbReset ==
    /\ user.pc = "reset"
    /\ IF csIdle
       THEN csRst' = FALSE /\ user' = [user EXCEPT !.pc = "send"] /\ UNCHANGED faults
       ELSE /\ faults < MaxFaults
            /\ user' = [user EXCEPT !.pc = "error"]
            /\ faults' = faults + 1 /\ UNCHANGED csRst
    /\ UNCHANGED <<dev, latched, nak, req, resp, hung, transfers>>

Send ==
    /\ user.pc = "send"
    /\ req' = Append(req, Words[user.sent + 1])
    /\ user' = [user EXCEPT !.sent = @ + 1,
                            !.pc = IF user.sent + 1 = Len(Words) THEN "poll" ELSE "send"]
    /\ UNCHANGED <<dev, latched, nak, csRst, resp, hung, transfers, faults>>

(* Enough responses, or none after two hundred polls. *)
Poll ==
    /\ user.pc = "poll"
    /\ \/ Len(resp) >= Len(Words) /\ user' = [user EXCEPT !.pc = "drain"]
       \/ resp = <<>> /\ hung /\ user' = [user EXCEPT !.pc = "error"]
    /\ UNCHANGED <<accelerator, transfers, faults>>

(* ReadReg drains every response and believes the last; WriteReg looks at each, and
   leaves the rest behind when one was not acknowledged. *)
Bad(r) == r.err

ReadDrained ==
    /\ user.pc = "drain" /\ user.op = "read"
    /\ LET last == resp[Len(resp)] IN
       user' = [user EXCEPT !.got = last.d, !.pc = IF Bad(last) THEN "error" ELSE "ok"]
    /\ resp' = <<>>
    /\ UNCHANGED <<dev, latched, nak, csRst, req, hung, transfers, faults>>

WriteDrained ==
    /\ user.pc = "drain" /\ user.op = "write"
    /\ LET bad == {i \in DOMAIN resp : Bad(resp[i])}
           n   == IF bad = {} THEN Len(resp) ELSE CHOOSE i \in bad : \A j \in bad : i <= j
       IN  /\ resp' = SubSeq(resp, n + 1, Len(resp))
           /\ user' = [user EXCEPT !.pc = IF bad = {} THEN "ok" ELSE "error"]
    /\ UNCHANGED <<dev, latched, nak, csRst, req, hung, transfers, faults>>

(* The process dies. *)
Dies ==
    /\ user.pc \in {"enter", "reset", "send", "poll", "drain"}
    /\ faults < MaxFaults
    /\ user' = NoUser
    /\ faults' = faults + 1
    /\ UNCHANGED <<accelerator, transfers>>
-----------------------------------------------------------------------------
(* The accelerator, outside this repository: it executes a request, which the device
   may not acknowledge, or drops its queues while it is held in reset. *)
Execute ==
    /\ ~csRst /\ ~hung /\ req # <<>>
    /\ \E err \in BOOLEAN :
       LET w == Head(req)
           begun == w.kind = "address" /\ w.d = 0
       IN  /\ nak' = (err \/ (nak /\ ~begun))
           /\ latched' = IF w.kind = "index" /\ ~nak' THEN w.d ELSE latched
           /\ dev' = IF w.kind = "store" /\ ~nak' THEN [dev EXCEPT ![latched] = w.d] ELSE dev
           /\ resp' = Append(resp, [d |-> IF w.kind = "fetch" THEN dev[latched] ELSE 0,
                                    err |-> nak'])
           /\ err => faults < MaxFaults /\ ~(nak /\ ~begun)
           /\ faults' = faults + (IF err THEN 1 ELSE 0)
    /\ req' = Tail(req)
    /\ UNCHANGED <<csRst, hung, user, transfers>>

Flush ==
    /\ csRst /\ ~csIdle
    /\ req' = <<>> /\ resp' = <<>> /\ hung' = FALSE
    /\ UNCHANGED <<dev, latched, nak, csRst, user, transfers, faults>>

Hangs ==
    /\ ~hung /\ req # <<>> /\ faults < MaxFaults
    /\ resp = <<>>
    /\ hung' = TRUE
    /\ faults' = faults + 1
    /\ UNCHANGED <<dev, latched, nak, csRst, req, resp, user, transfers>>

Recovers ==
    /\ hung /\ user.pc # "poll"
    /\ hung' = FALSE
    /\ UNCHANGED <<dev, latched, nak, csRst, req, resp, user, transfers, faults>>

SmbStops == user.pc \in {"off", "ok", "error"} /\ UNCHANGED smbVars

SmbNext ==
    \/ \E r \in Registers : Begin("read", r, 0) \/ \E v \in Values : Begin("write", r, v)
    \/ smbEnter \/ smbReset \/ Send \/ Poll \/ ReadDrained \/ WriteDrained \/ Dies
    \/ Execute \/ Flush \/ Hangs \/ Recovers \/ SmbStops

SmbSpec == SmbInit /\ [][SmbNext]_smbVars
-----------------------------------------------------------------------------
(* A read that succeeds returns what the device holds in the register it asked for,
   and a write that succeeds is in the register it named, whatever a killed or
   failed predecessor left in the accelerator. *)
ReadsItsOwn ==
    user.pc = "ok" => dev[user.reg] = IF user.op = "read" THEN user.got ELSE user.val
=============================================================================
