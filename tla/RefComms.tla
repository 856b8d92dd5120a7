------------------------------ MODULE RefComms ------------------------------
(***************************************************************************)
(* COMMS of the reference firmware (reference/COMMS/comms.c): a loop that  *)
(* handles the radio's interrupts, waits 100 ms and dispatches on          *)
(* COMMS_State.  The timer task sets COMMS_State and Beacon_Flag between   *)
(* any two of its steps, and several assignments of the loop overwrite     *)
(* what the timer, or a callback, has asked for.                           *)
(* COMMS_DEBUG_MODE is 1 and nothing changes it: the radio never sleeps.   *)
(***************************************************************************)
EXTENDS Integers

CONSTANTS Commands,    \* what the station sends, by what process_telecommand does with it
          Images,      \* bound: the values imagelength takes
          MaxEvents    \* bound: packets the radio receives, and transmissions it fails

ASSUME ImagesAssumption == Images \subseteq Nat /\ MaxEvents \in Nat

VARIABLES
    state,        \* COMMS_State
    flags,        \* the flags of comms.c that are set
    tlc,          \* TLCReceived: the last command processed
    rxdata,       \* RxData: the packet of the last reception, or zeros
    radio, irq,   \* the radio's mode, and its interrupts not processed yet
    at,           \* where the loop is
    packet_number, packets_to_send, plsize,
    image,        \* imagelength, set by the camera
    sf,           \* where the spreading factor comes from
    ticking,      \* xTimerBeacon runs
    passes,       \* passes of the loop since the timer last expired
    events,       \* counter of the bound
    promised, covered  \* history: the image a download set out to send, the bytes it has sent

radioVars == <<radio, irq>>
download == <<packet_number, packets_to_send, plsize, promised, covered>>
cvars == <<state, flags, tlc, rxdata, radioVars, at, download, image, sf, ticking, passes, events>>

\* Commands as process_telecommand tells them apart.  "beacon": TRANSIT_*, UPLOAD_UNIX_TIME,
\* UPLOAD_EPS_TH, COMMS_IT_DOWNLINK, PAYLOAD_DEACTIVATE.  "ignored": nothing is done (its cases
\* are to be done, and UPLOAD_ADCS_TLE, which is 7, waits for a third byte of 86).
Classes == {"ping", "beacon", "config", "params", "report", "stop", "resume", "data", "reboot",
            "ignored", "unknown"}

Bytes == 41        \* what a packet of DATA_OP takes from the photo
\* The period of xTimerBeacon is 30 s (INIT_BEACON_PERIOD).  A pass that transmits takes less
\* than 10 s and any other 2 s at most, so that five passes always fit.
PassesPerTick == 5

Received == Commands \union {"foreign", "damaged"}

CommsInit ==
    /\ state = "SLEEP" /\ flags = {} /\ tlc = "none" /\ rxdata = "zeros"
    /\ radio = "standby" /\ irq = {} /\ at = "irq"
    /\ packet_number = 0 /\ packets_to_send = 0 /\ plsize = 0 /\ promised = 0 /\ covered = 0
    /\ image = 0 /\ sf = "default" /\ ticking = TRUE /\ passes = 0 /\ events = 0

-----------------------------------------------------------------------------
(* The radio, the timer task, the camera *)

\* Reception is continuous: the radio goes on receiving, and no longer limits the time.  A
\* packet not read yet is replaced.
Receives ==
    /\ radio \in {"rx", "rxOnce"} /\ radio' = "rx"
    /\ events < MaxEvents /\ events' = events + 1
    /\ \E packet \in Received : irq' = (irq \ Received) \union {packet}
    /\ UNCHANGED <<state, flags, tlc, rxdata, at, download, image, sf, ticking, passes>>

RadioEnds ==
    /\ \/ radio = "tx" /\ irq' = irq \union {"txDone"}
       \/ radio = "cad" /\ \E found \in {"detected", "clear"} : irq' = irq \union {found}
    /\ radio' = "standby"
    /\ UNCHANGED <<state, flags, tlc, rxdata, at, download, image, sf, ticking, passes, events>>

\* The driver calls these two from its timers, not from Radio.IrqProcess.
OnTxTimeout ==
    /\ radio = "tx" /\ radio' = "standby" /\ state' = "STDBY"
    /\ events < MaxEvents /\ events' = events + 1
    /\ UNCHANGED <<flags, tlc, rxdata, irq, at, download, image, sf, ticking, passes>>

OnRxTimeout ==
    /\ radio = "rxOnce" /\ radio' = "standby" /\ state' = "SLEEP"
    /\ UNCHANGED <<flags, tlc, rxdata, irq, at, download, image, sf, ticking, passes, events>>

beacon_time ==
    /\ ticking /\ passes = PassesPerTick /\ passes' = 0
    /\ flags' = flags \union {"Beacon"} /\ state' = "TX"
    /\ UNCHANGED <<tlc, rxdata, radioVars, at, download, image, sf, ticking, events>>

\* getData of the camera sets imagelength in the task PAYLOAD.
Photo ==
    /\ image' \in Images \ {image}
    /\ UNCHANGED <<state, flags, tlc, rxdata, radioVars, at, download, sf, ticking, passes, events>>

-----------------------------------------------------------------------------
(* The loop: the callbacks of Radio.IrqProcess, then the switch *)

\* OnTxDone, OnRxDone or OnRxError, OnCadDone, in the driver's order: each overwrites
\* COMMS_State.
IrqProcess ==
    LET downloaded == "txDone" \in irq /\ packet_number = packets_to_send + 1
        scanned == irq \intersect {"detected", "clear"} # {}
        ours == irq \intersect Commands
    IN  /\ at = "irq" /\ at' = "wait" /\ irq' = {}
        /\ state' = (CASE scanned -> "SLEEP"
                       [] ~scanned /\ ours # {} -> "RX"
                       [] ~scanned /\ "foreign" \in irq -> "STDBY"
                       [] ~scanned /\ ("damaged" \in irq \/ (downloaded /\ irq \intersect Received = {})) -> "RX"
                       [] OTHER -> state)
        /\ flags' = (IF downloaded THEN flags \ {"Data"} ELSE flags)
                      \union (IF ours # {} THEN {"Tlc"} ELSE {})
                      \union (IF "detected" \in irq THEN {"CADRX"} ELSE {})
        /\ rxdata' = (IF ours # {} THEN CHOOSE c \in ours : TRUE
                      ELSE IF "foreign" \in irq THEN "zeros" ELSE rxdata)
        /\ radio' = (IF irq \intersect {"foreign", "damaged", "clear"} # {} THEN "standby" ELSE radio)
        /\ UNCHANGED <<tlc, download, image, sf, ticking, passes, events>>

\* Time for one pass more has gone by.
Elapse == passes' = IF passes < PassesPerTick THEN passes + 1 ELSE passes

\* The switch reads COMMS_State: what it is set to from now on is for the next pass, unless
\* the case overwrites it.
Dispatch ==
    /\ at = "wait" /\ at' = state /\ Elapse
    /\ UNCHANGED <<state, flags, tlc, rxdata, radioVars, download, image, sf, ticking, events>>

-----------------------------------------------------------------------------
(* process_telecommand *)

\* Unless transmissions are stopped the answer asked for is sent by the next pass.
Answer(asked) ==
    /\ flags' = (flags \ {"Tlc"}) \union asked
    /\ IF "Stopped" \in flags THEN UNCHANGED <<state, radio>> ELSE state' = "TX" /\ radio' = "fs"

Quietly(s) == flags' = flags \ {"Tlc"} /\ state' = s /\ UNCHANGED radio

process_telecommand ==
    /\ tlc' = rxdata
    /\ \/ rxdata = "ping" /\ Answer({"TxAck"}) /\ UNCHANGED <<plsize, ticking>>
       \/ rxdata = "beacon" /\ Answer({"Beacon"}) /\ UNCHANGED <<plsize, ticking>>
       \/ rxdata = "report" /\ Answer({"TxConfig"}) /\ plsize' = 19 /\ UNCHANGED ticking
       \/ rxdata = "data" /\ Answer({"Data"}) /\ plsize' = 40 /\ UNCHANGED ticking
       \/ rxdata \in {"config", "params"} /\ Quietly("STDBY") /\ UNCHANGED <<plsize, ticking>>
       \/ rxdata = "ignored" /\ Quietly(state) /\ UNCHANGED <<plsize, ticking>>
       \/ rxdata \in {"unknown", "zeros"} /\ Quietly("SLEEP") /\ UNCHANGED <<plsize, ticking>>
       \/ /\ rxdata = "stop" /\ ticking' = FALSE /\ flags' = (flags \ {"Tlc"}) \union {"Stopped"}
          /\ UNCHANGED <<plsize, state, radio>>
       \/ /\ rxdata = "resume" /\ ticking' = TRUE /\ flags' = flags \ {"Tlc", "Stopped"}
          /\ UNCHANGED <<plsize, state, radio>>

-----------------------------------------------------------------------------
(* The cases of the switch *)

\* Wrong variant: nothing takes the loop out of RX.
ReceiveCaseStays ==
    /\ at = "RX" /\ "Tlc" \notin flags /\ at' = "irq"
    /\ flags' = flags \ {"WaitAck"} /\ radio' = IF "WaitAck" \in flags THEN "rxOnce" ELSE radio
    /\ UNCHANGED <<state, tlc, rxdata, irq, download, image, sf, ticking, passes, events>>

\* RX without a command.
ReceiveCase ==
    /\ at = "RX" /\ "Tlc" \notin flags /\ at' = "irq" /\ state' = "STDBY"
    /\ flags' = flags \ {"WaitAck"} /\ radio' = IF "WaitAck" \in flags THEN "rxOnce" ELSE radio
    /\ UNCHANGED <<tlc, rxdata, irq, download, image, sf, ticking, passes, events>>

\* RX with one.
CommandCase ==
    /\ at = "RX" /\ "Tlc" \in flags /\ at' = "irq" /\ rxdata # "reboot"
    /\ "WaitAck" \notin flags /\ process_telecommand
    /\ UNCHANGED <<rxdata, irq, packet_number, packets_to_send, promised, covered,
                   image, sf, passes, events>>

\* The reception Wait_ACK_Flag asks for begins first, and is given up if there is an answer.
ListenFirst ==
    /\ at = "RX" /\ "Tlc" \in flags /\ "WaitAck" \in flags
    /\ flags' = flags \ {"WaitAck"} /\ radio' = "rxOnce"
    /\ UNCHANGED <<state, tlc, rxdata, irq, at, download, image, sf, ticking, passes, events>>

\* HAL_NVIC_SystemReset
Reboot ==
    /\ at = "RX" /\ "Tlc" \in flags /\ "WaitAck" \notin flags /\ rxdata = "reboot"
    /\ state' = "SLEEP" /\ flags' = {} /\ tlc' = "none" /\ rxdata' = "zeros"
    /\ radio' = "standby" /\ irq' = {} /\ at' = "irq"
    /\ packet_number' = 0 /\ packets_to_send' = 0 /\ plsize' = 0 /\ promised' = 0 /\ covered' = 0
    /\ image' = 0 /\ sf' = "default" /\ ticking' = TRUE /\ passes' = 0 /\ UNCHANGED events

\* What the radio has received and nobody has read is overwritten by what is sent.
Overwritten == IF irq \intersect Commands = {} THEN irq ELSE (irq \ Commands) \union {"foreign"}

Transmit(flag, size, where) ==
    /\ flag \in flags /\ flags' = flags \ {flag} /\ plsize' = size
    /\ radio' = "tx" /\ irq' = Overwritten /\ at' = where
    /\ UNCHANGED <<state, tlc, rxdata, packet_number, packets_to_send, promised, covered,
                   image, sf, ticking, passes, events>>

Skip(flag, where) ==
    /\ flag \notin flags /\ at' = where
    /\ UNCHANGED <<state, flags, tlc, rxdata, radioVars, download, image, sf, ticking,
                   passes, events>>

\* After the time on air COMMS_State becomes SLEEP, whatever has been asked for meanwhile.
AfterSend(from, where) ==
    /\ at = from /\ at' = where /\ state' = "SLEEP"
    /\ UNCHANGED <<flags, tlc, rxdata, radioVars, download, image, sf, ticking, passes, events>>

BeaconCase == at = "TX" /\ (Transmit("Beacon", Bytes, "beaconSent") \/ Skip("Beacon", "ack"))
AckCase == at = "ack" /\ (Transmit("TxAck", Bytes, "ackSent") \/ Skip("TxAck", "data"))
ReportCase == at = "report" /\ (Transmit("TxConfig", 16, "reportSent") \/ Skip("TxConfig", "irq"))

\* Wrong variant: a pass sends one thing.
BeaconSentEndsPass == AfterSend("beaconSent", "irq")
BeaconSent == AfterSend("beaconSent", "ack")
AckSent == AfterSend("ackSent", "data")
ReportSent == AfterSend("reportSent", "irq")

\* Wrong variant: packets are numbered from packet_start, which is 1.
DataCaseFromOne ==
    /\ at = "data"
    /\ \/ /\ "Data" \in flags /\ at' = "packets"
          /\ packets_to_send' = (image \div plsize) + 1 /\ packet_number' = 1
          /\ promised' = image /\ covered' = 0
          /\ UNCHANGED <<state, flags, tlc, rxdata, radioVars, plsize, image, sf, ticking,
                         passes, events>>
       \/ Skip("Data", "report")

DataCase ==
    /\ at = "data"
    /\ \/ /\ "Data" \in flags /\ at' = "packets"
          /\ packets_to_send' = (image \div plsize) + 1 /\ packet_number' = 0
          /\ promised' = image /\ covered' = 0
          /\ UNCHANGED <<state, flags, tlc, rxdata, radioVars, plsize, image, sf, ticking,
                         passes, events>>
       \/ Skip("Data", "report")

\* One pass of the inner loop: TxPrepare(DATA_OP) and Radio.Send.
SendPacket ==
    /\ at = "packets" /\ packet_number <= packets_to_send
    /\ packet_number' = packet_number + 1 /\ plsize' = Bytes /\ flags' = flags \union {"WaitAck"}
    /\ covered' = IF packet_number * Bytes = covered THEN covered + Bytes ELSE covered
    /\ radio' = "tx" /\ irq' = Overwritten /\ Elapse
    /\ UNCHANGED <<state, tlc, rxdata, at, packets_to_send, promised, image, sf,
                   ticking, events>>

PacketsSent ==
    /\ at = "packets" /\ packet_number > packets_to_send
    /\ flags' = flags \ {"Data"} /\ at' = "report"
    /\ UNCHANGED <<state, tlc, rxdata, radioVars, download, image, sf, ticking,
                   passes, events>>

\* STDBY applies the configuration command TLCReceived still names, from whatever RxData
\* holds: the tests of the bounds, joined with |, always hold.
StandbyCase ==
    /\ at = "STDBY" /\ at' = "irq"
    /\ IF tlc \in {"config", "params"}
       THEN /\ radio' = "standby" /\ state' = "TX"
            /\ \/ flags' = flags \union {"Beacon"}
               \/ /\ tlc = "params" /\ rxdata # "zeros"
                  /\ flags' \in {flags \union {"Beacon", "CadMode"}, (flags \union {"Beacon"}) \ {"CadMode"}}
            /\ sf' = IF tlc = "params" THEN sf ELSE IF rxdata = "config" THEN "uploaded" ELSE "stale"
       ELSE state' = "SLEEP" /\ UNCHANGED <<radio, flags, sf>>
    /\ UNCHANGED <<tlc, rxdata, irq, download, image, ticking, passes, events>>

SleepCase ==
    /\ at = "SLEEP" /\ at' = "irq"
    /\ radio' = (CASE {"CadMode", "CADRX"} \subseteq flags -> "rxOnce"
                   [] "CadMode" \in flags -> "cad"
                   [] OTHER -> "rx")
    /\ flags' = IF "CadMode" \in flags THEN flags \ {"CADRX"} ELSE flags
    /\ UNCHANGED <<state, tlc, rxdata, irq, download, image, sf, ticking, passes, events>>

-----------------------------------------------------------------------------

Loop == \/ IrqProcess \/ Dispatch \/ ReceiveCase \/ CommandCase \/ ListenFirst \/ Reboot
        \/ BeaconCase \/ AckCase \/ ReportCase \/ BeaconSent \/ AckSent \/ ReportSent
        \/ DataCase \/ SendPacket \/ PacketsSent \/ StandbyCase \/ SleepCase
CommsNext == Loop \/ Receives \/ RadioEnds \/ OnTxTimeout \/ OnRxTimeout \/ beacon_time \/ Photo

\* A download takes as many bytes in order as the image had when it began.  The
\* number of packets is computed with the size the last answer has left, 40, 41, 19 or 16,
\* each packet carries 41 bytes, and the camera, a beacon or a report may come in between.
ImageIsCovered == at = "packets" /\ packet_number > packets_to_send => covered >= promised

\* An answer a ping has asked for is sent, however often a callback, the timer or the end of
\* a transmission overwrites COMMS_State, unless transmissions are stopped, or channel scans are
\* on: then OnCadDone overwrites what the timer has set while the loop waited for the scan.
PingIsAnswered ==
    "TxAck" \in flags ~> "TxAck" \notin flags \/ "Stopped" \in flags \/ "CadMode" \in flags

\* The loop always comes back to listening, but for one case: after a whole download every end
\* of a transmission is taken for the download's and the state goes to RX, then to STDBY, where a
\* configuration command that was processed since is applied again, and its beacon sent, for ever.
KeepsListening ==
    []<>(\/ radio \in {"rx", "rxOnce", "cad"}
         \/ tlc \in {"config", "params"} /\ packet_number = packets_to_send + 1)
=============================================================================
