------------------------------ MODULE Telemetry ------------------------------
(***************************************************************************)
(* What reports are made of: the bodies of TM_DOWNLINK_CONFIG, TM_HK_LIVE  *)
(* (tm_builder.c) and of the beacon (beacon.c), the configuration that a   *)
(* telecommand carries (lora_cfg.c), and the temperature and the supply    *)
(* that the ADC reads (temperature.c).  A body is a sequence of bytes.     *)
(* All of it is pure, and is checked by the assumptions at its end.        *)
(***************************************************************************)
EXTENDS Integers, Sequences

ToByte(n) == n % 256                                 \* (uint8_t), of int8 too
ToInt8(b) == IF b >= 128 THEN b - 256 ELSE b         \* (int8_t)
BigEndian(n, width) == [i \in 1..width |-> ToByte(n \div 256^(width - i))]
FromBigEndian(b) == LET from[i \in 0..Len(b)] == IF i = 0 THEN 0 ELSE from[i - 1] * 256 + b[i]
                    IN  from[Len(b)]

\* The division of C, towards zero.
Quotient(a, b) == IF a >= 0 THEN a \div b ELSE -((-a) \div b)

-----------------------------------------------------------------------------
(* Configurations of the link *)

\* lora_cfg_parse, of 21 bytes
ParseConfig(b) ==
    [cfg_id |-> b[1], target |-> b[2], frequency |-> FromBigEndian(SubSeq(b, 3, 6)),
     sf |-> b[7], bw |-> b[8], cr |-> b[9], power |-> ToInt8(b[10]),
     preamble |-> FromBigEndian(SubSeq(b, 11, 12)), crc |-> b[13], iq |-> b[14], sync |-> b[15],
     commitAt |-> FromBigEndian(SubSeq(b, 16, 19)), revertAfter |-> FromBigEndian(SubSeq(b, 20, 21))]

\* validate
ValidConfig(c) ==
    /\ c.frequency \in 860000000..928000000 /\ c.power <= 22
    /\ c.sf \in 7..12 /\ c.bw <= 2 /\ c.cr \in 1..4

\* tm_build_downlink_config
DownlinkConfigBody(c) ==
    <<1, c.cfg_id>> \o BigEndian(c.frequency, 4) \o <<c.sf, c.bw, c.cr, ToByte(c.power)>>
    \o BigEndian(c.preamble, 2) \o <<c.crc, c.iq, c.sync, 0>>

-----------------------------------------------------------------------------
(* Temperature and supply *)

NoReading == -1        \* adc_read_channel fails

\* mcu_get_temperature, of the readings of VREFINT and of the sensor
Temperature(vref, sensor, cal) ==
    IF vref = NoReading \/ sensor = NoReading THEN -128
    ELSE LET at3V == Quotient(sensor * cal.vref, vref)
             celsius == 30 + Quotient((at3V - cal.at30) * 80, cal.at110 - cal.at30)
         IN  IF celsius > 127 THEN 127 ELSE IF celsius < -128 THEN -128 ELSE celsius

\* mcu_get_vdda_mv
VddaMv(vref, cal) == IF vref = NoReading THEN 0 ELSE ((3000 * cal.vref) \div vref) % 2^16

Volts10(mv) == ToByte(mv \div 100)

\* tm_build_hk_live
HkLiveBody(state, celsius, mv) ==
    [i \in 1..24 |-> CASE i = 1 -> state [] i = 2 -> 63 [] i = 3 -> ToByte(celsius)
                       [] i = 7 -> Volts10(mv) [] OTHER -> 0]

\* build_beacon_body; the time of boot is 0 when it could not be read.
BeaconBody(epoch, boot, state, celsius, mv, last, cfgId) ==
    <<1>> \o BigEndian(epoch, 4) \o <<state, 63, ToByte(celsius), 0, Volts10(mv), 0, 0>>
    \o last \o <<cfgId>> \o BigEndian(IF epoch >= boot THEN epoch - boot ELSE 0, 4)

-----------------------------------------------------------------------------
(* What the ground station relies on *)

\* Bodies of TC_LORA_CONFIG: each field at its ends, the others in the middle.
Middle == <<7, 1, 51, 188, 160, 0, 10, 1, 2, 14, 1, 44, 1, 0, 18, 101, 0, 255, 3, 1, 2>>
Bodies == {[Middle EXCEPT ![i] = v] : i \in (1..21) \ {3, 16}, v \in {0, 1, 127, 128, 255}}

\* What is reported is what was commanded, byte by byte, but for the target and the times,
\* which are not reported; a power below zero keeps its sign.
ASSUME ReportTellsTheConfiguration ==
    \A b \in Bodies :
        LET report == DownlinkConfigBody(ParseConfig(b))
        IN  /\ SubSeq(report, 3, 15) = SubSeq(b, 3, 15) /\ report[2] = b[1]
            /\ ToInt8(report[10]) = ParseConfig(b).power

\* A configuration read from a report and commanded again is accepted or refused as it was.
ASSUME ReportIsACommand ==
    \A b \in Bodies :
        LET report == DownlinkConfigBody(ParseConfig(b))
            again == <<report[2], b[2]>> \o SubSeq(report, 3, 15) \o SubSeq(b, 16, 21)
        IN  ParseConfig(again) = ParseConfig(b) /\ ValidConfig(ParseConfig(again)) = ValidConfig(ParseConfig(b))

\* Calibrations of three chips, and what the ADC gives at a supply and a temperature.
Chips == {[vref |-> 1655, at30 |-> 1037, at110 |-> 1375],
          [vref |-> 1640, at30 |-> 1020, at110 |-> 1350],
          [vref |-> 1670, at30 |-> 1055, at110 |-> 1400]}
VrefAt(mv, chip) == (3000 * chip.vref) \div mv
SensorAt(mv, t, chip) ==
    ((chip.at30 * 80 + (chip.at110 - chip.at30) * (t - 30)) * 3000) \div (80 * mv)

\* At every supply the chip runs at, a report gives the temperature to two degrees and the
\* supply to a tenth of a volt: the compensation undoes the supply.
ASSUME ReportTellsTheTemperature ==
    \A chip \in Chips, mv \in {1750, 2100, 2800, 3000, 3300, 3600}, t \in -40..110 :
        LET celsius == Temperature(VrefAt(mv, chip), SensorAt(mv, t, chip), chip)
            report == HkLiveBody(0, celsius, VddaMv(VrefAt(mv, chip), chip))
        IN  ToInt8(report[3]) \in t - 2 .. t + 2 /\ report[7] \in mv \div 100 .. (mv + 10) \div 100

\* A failed reading is told from every temperature that the chip can have.
ASSUME FailedReadingIsSeen ==
    \A chip \in Chips : /\ Temperature(NoReading, 900, chip) = -128
                        /\ ToInt8(HkLiveBody(0, Temperature(1500, NoReading, chip), 0)[3]) = -128

\* The time since boot is never huge after the clock was set back.
ASSUME UptimeIsBounded ==
    \A epoch, boot \in {0, 1, 255, 256, 65536, 2000000000} :
        FromBigEndian(SubSeq(BeaconBody(epoch, boot, 0, 20, 3300, <<1, 0>>, 1), 16, 19))
            = IF boot <= epoch THEN epoch - boot ELSE 0

=============================================================================
