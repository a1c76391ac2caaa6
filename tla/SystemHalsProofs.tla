-------------------------- MODULE SystemHalsProofs --------------------------
(***************************************************************************)
(* Proofs about the power, lights and sensors HALs, for any list of        *)
(* devices, any colours, any axes and queue, and any faults.               *)
(***************************************************************************)
EXTENDS SystemHals, SequenceTheorems, FiniteSetTheorems, TLAPS

N == Len(Devices)
Positions == 1..N

\* the place of position k of the list in the walk
Turn(b, k) == IF b THEN N + 1 - k ELSE k

\* the call is done with position k; it has told it what to do
Past(k) == ppc \in {"idle", "bl_power"} \/ Turn(on, k) < index
Handled(k) == Past(k) \/ (ppc = "poll" /\ Turn(on, k) = index)

Wanted == IF on THEN "on" ELSE "auto"

(* The devices the call has told hold its value; the others all hold one   *)
(* value, that of the call before.                                         *)
WalkInv ==
    \E before \in {"on", "auto"} : \A k \in Positions :
        Devices[k] \in Obeying =>
            control[Devices[k]] = IF Handled(k) THEN Wanted ELSE before

(* What a resume is done with is active, or was given up.                  *)
ActiveInv ==
    on => \A k \in Positions :
            Past(k) /\ Devices[k] \in Obeying \ gaveUp => status[Devices[k]] = "active"

\* where the loop is
PlaceInv ==
    /\ ppc \in {"device", "poll"} => index \in 1..(N + 1)
    /\ ppc = "poll" => index \in Positions /\ count # 0

PanelInv ==
    /\ ppc \in {"idle", "bl_power"} /\ "sleep" \notin missed => sleep = IF on THEN 0 ELSE 1
    /\ ppc = "idle" /\ "bl_power" \notin missed => bl_power = IF on THEN 0 ELSE 1

LightInv ==
    /\ lpc \in {"idle", "brightness"} /\ "monochrome" \notin unwritten
         => monochrome = IF level > 0 THEN 0 ELSE 1
    /\ lpc = "idle" /\ "brightness" \notin unwritten => brightness = level

PInv == PowerTypeOK /\ PlaceInv /\ WalkInv /\ ActiveInv /\ PanelInv
LInv == LightTypeOK /\ LightInv

-----------------------------------------------------------------------------
(* The list *)

LEMMA ListFacts ==
    /\ N \in Nat /\ DOMAIN Devices = Positions
    /\ \A k \in Positions : Devices[k] \in DeviceSet
    /\ \A d \in DeviceSet : \E k \in Positions : Devices[k] = d
    /\ \A j, k \in Positions : Devices[j] = Devices[k] => j = k
    /\ "sleep" \notin DeviceSet /\ "bl_power" \notin DeviceSet
<1>1. Devices \in Seq(DeviceSet)
  BY PowerAssumption
<1>2. N \in Nat /\ DOMAIN Devices = Positions
  BY <1>1 DEF N, Positions
<1> QED BY <1>2, PowerAssumption DEF DeviceSet

LEMMA TurnFacts ==
    ASSUME NEW b \in BOOLEAN, NEW k \in Positions
    PROVE  /\ Turn(b, k) \in Positions
           /\ Walk(b)[Turn(b, k)] = Devices[k]
           /\ \A j \in Positions : Turn(b, j) = Turn(b, k) => j = k
<1>1. N \in Nat /\ DOMAIN Devices = 1..N /\ k \in 1..N
  BY ListFacts DEF Positions
<1>2. CASE b
  <2>1. Turn(b, k) = N + 1 - k /\ N + 1 - k \in 1..N /\ N + 1 - (N + 1 - k) = k
    BY <1>1, <1>2 DEF Turn
  <2>2. Walk(b)[N + 1 - k] = Devices[N + 1 - (N + 1 - k)]
    BY <1>1, <1>2, <2>1 DEF Walk, N
  <2>3. \A j \in 1..N : N + 1 - j = N + 1 - k => j = k
    BY <1>1
  <2> QED BY <1>2, <2>1, <2>2, <2>3 DEF Turn, Positions
<1>3. CASE ~ b
  BY <1>1, <1>3 DEF Turn, Walk, Positions
<1> QED BY <1>2, <1>3

\* each place of the walk is the turn of some position
LEMMA NodeIs ==
    ASSUME on \in BOOLEAN, index \in Positions
    PROVE  \E k \in Positions : Turn(on, k) = index /\ Node = Devices[k]
<1>1. N \in Nat /\ index \in 1..N
  BY ListFacts DEF Positions
<1>2. Turn(on, index) \in 1..N /\ Turn(on, Turn(on, index)) = index
  BY <1>1 DEF Turn
<1>3. Walk(on)[Turn(on, Turn(on, index))] = Devices[Turn(on, index)]
  BY <1>2, TurnFacts DEF Positions
<1> QED BY <1>2, <1>3 DEF Node, Positions

-----------------------------------------------------------------------------
(* Steps of setInteractive *)

\* the types the steps need, and positions as numbers
LEMMA PowerFacts ==
    ASSUME PowerTypeOK
    PROVE  /\ on \in BOOLEAN /\ index \in Nat
           /\ control \in [DeviceSet -> {"on", "auto"}]
           /\ \A k \in Positions : Turn(on, k) \in Nat /\ Devices[k] \in DeviceSet
           /\ \A d \in Supported : d \in DeviceSet
<1>1. \A k \in Positions : Turn(on, k) \in Nat
  BY TurnFacts, ListFacts DEF Positions, PowerTypeOK
<1> QED BY <1>1, ListFacts, PowerAssumption DEF PowerTypeOK, N

LEMMA NextNodePlaces ==
    ASSUME PowerTypeOK, ppc \in {"device", "poll"}, index \in Positions, NextNode, on' = on
    PROVE  /\ PlaceInv' /\ index' \in 0..(N + 1)
           /\ \A k \in Positions : Past(k)' <=> Past(k) \/ Turn(on, k) = index
           /\ \A k \in Positions : Handled(k)' <=> Past(k)'
<1>1. index \in 1..N /\ N \in Nat /\ index' = index + 1 /\ ppc' = "device"
  BY ListFacts DEF Positions, NextNode
<1>2. \A k \in Positions : Turn(on, k) \in Nat /\ Turn(on, k)' = Turn(on, k)
  BY PowerFacts DEF Turn
<1>3. PlaceInv' /\ index' \in 0..(N + 1)
  BY <1>1 DEF PlaceInv
<1>4. \A k \in Positions : Turn(on, k) < index + 1 <=> Turn(on, k) < index \/ Turn(on, k) = index
  BY <1>1, <1>2
<1> QED BY <1>1, <1>2, <1>3, <1>4 DEF Past, Handled

LEMMA BeginInv ==
    ASSUME PInv, NEW b \in BOOLEAN, power_set_interactive(b)
    PROVE  PInv'
<1> USE DEF PInv, power_set_interactive, kernelVars
<1>1. PowerTypeOK' /\ PlaceInv' /\ PanelInv'
  <2>1. 1 \in 0..(N + 1) /\ 1 \in 1..(N + 1) /\ 0 \in 0..MaxReadErrors
    BY ListFacts, PowerAssumption
  <2>2. PowerTypeOK'
    BY <2>1 DEF PowerTypeOK, N
  <2> QED BY <2>1, <2>2 DEF PlaceInv, PanelInv
<1>2. \A k \in Positions : ~ Past(k)' /\ ~ Handled(k)' /\ Handled(k)
  <2>1. \A k \in Positions : Turn(b, k) \in Nat \ {0}
    BY TurnFacts, ListFacts DEF Positions
  <2> QED BY <2>1 DEF Past, Handled, Turn
<1>3. ActiveInv'
  BY <1>2 DEF ActiveInv
<1>4. WalkInv'
  <2>1. Wanted \in {"on", "auto"}
    BY DEF Wanted
  <2>2. \A k \in Positions : Devices[k] \in Obeying => control[Devices[k]] = Wanted
    BY <1>2 DEF WalkInv
  <2>3. control' = control /\ Obeying' = Obeying
    BY DEF Obeying
  <2> QED BY <1>2, <2>1, <2>2, <2>3 DEF WalkInv
<1> QED BY <1>1, <1>3, <1>4

(* The loop goes on: the node is active, if it must be, or it does not     *)
(* count; no device that counts has changed.                               *)
LEMMA NextInv ==
    ASSUME PInv, ppc \in {"device", "poll"}, index \in Positions, NextNode,
           UNCHANGED <<on, kernelVars>>,
           Obeying' \subseteq Obeying, gaveUp \subseteq gaveUp',
           ppc = "device" => Node \notin Obeying',
           ppc = "poll" /\ on /\ Node \in Obeying' \ gaveUp' => status[Node] = "active"
    PROVE  PlaceInv' /\ WalkInv' /\ ActiveInv' /\ PanelInv'
<1> USE DEF PInv, kernelVars
<1>1. /\ PlaceInv'
      /\ \A k \in Positions : Past(k)' <=> Past(k) \/ Turn(on, k) = index
      /\ \A k \in Positions : Handled(k)' <=> Past(k)'
  BY NextNodePlaces
<1>2. PanelInv'
  BY DEF PanelInv, NextNode
<1>3. \A k \in Positions : Turn(on, k) = index => Devices[k] = Node
  BY TurnFacts DEF Node, PowerTypeOK
<1>4. ActiveInv'
  BY <1>1, <1>3 DEF ActiveInv, Past
<1>5. \A k \in Positions : Devices[k] \in Obeying' => (Handled(k)' <=> Handled(k))
  BY <1>1, <1>3 DEF Handled
<1>6. Wanted' = Wanted
  BY DEF Wanted
<1>7. WalkInv'
  BY <1>5, <1>6 DEF WalkInv
<1> QED BY <1>1, <1>2, <1>4, <1>7

LEMMA SkipInv ==
    ASSUME PInv, device_skipped
    PROVE  PInv'
<1> USE DEF PInv, device_skipped, kernelVars
<1>1. index \in Positions /\ Node \in DeviceSet
  <2>1. index \in Positions
    BY ListFacts
  <2> QED BY <2>1, NodeIs, ListFacts DEF PowerTypeOK
<1>2. Obeying' \subseteq Obeying /\ Node \notin Obeying'
  BY DEF Obeying
<1>3. PlaceInv' /\ WalkInv' /\ ActiveInv' /\ PanelInv'
  BY <1>1, <1>2, NextInv
<1>4. PowerTypeOK'
  BY <1>1, NextNodePlaces DEF PowerTypeOK, NextNode, N
<1> QED BY <1>3, <1>4

LEMMA WaitInv ==
    ASSUME PInv, status_reached \/ status_awaited \/ status_error
    PROVE  PInv'
<1> USE DEF PInv, kernelVars
<1>1. ppc = "poll" /\ index \in Positions /\ Node \in DeviceSet /\ UNCHANGED <<on, kernelVars, missed>>
  <2>1. ppc = "poll" /\ index \in Positions /\ UNCHANGED <<on, kernelVars, missed>>
    BY DEF status_reached, status_awaited, status_error, PlaceInv
  <2> QED BY <2>1, NodeIs, ListFacts DEF PowerTypeOK
<1>2. Obeying' = Obeying
  BY <1>1 DEF Obeying
<1>3. CASE NextNode /\ (Reached \/ Node \in gaveUp') /\ gaveUp' \in {gaveUp, gaveUp \union {Node}}
           /\ count' \in 0..Tries /\ errors' = errors
  <2>1. on /\ Node \in Obeying' \ gaveUp' => status[Node] = "active"
    BY <1>3 DEF Reached
  <2>2. PlaceInv' /\ WalkInv' /\ ActiveInv' /\ PanelInv'
    BY <1>1, <1>2, <1>3, <2>1, NextInv
  <2>3. PowerTypeOK'
    BY <1>1, <1>3, NextNodePlaces DEF PowerTypeOK, NextNode, N
  <2> QED BY <2>2, <2>3
<1>4. CASE UNCHANGED <<ppc, index, gaveUp>> /\ count' \in 0..Tries /\ count' # 0 /\ errors' \in 0..MaxReadErrors
  <2>1. PowerTypeOK' /\ PlaceInv' /\ ActiveInv' /\ PanelInv'
    BY <1>1, <1>2, <1>4 DEF PowerTypeOK, PlaceInv, ActiveInv, PanelInv, Past, Turn
  <2>2. WalkInv'
    BY <1>1, <1>2, <1>4 DEF WalkInv, Handled, Past, Turn, Wanted
  <2> QED BY <2>1, <2>2
<1>5. CASE status_reached
  BY <1>3, <1>5 DEF status_reached, PowerTypeOK
<1>6. CASE status_awaited
  <2>1. count \in 1..Tries /\ count - 1 \in 0..Tries /\ errors \in 0..MaxReadErrors
    BY <1>1, PowerAssumption DEF PowerTypeOK, PlaceInv
  <2>2. CASE count > 1
    BY <1>4, <1>6, <2>1, <2>2 DEF status_awaited
  <2>3. CASE ~ (count > 1)
    BY <1>3, <1>6, <2>1, <2>3 DEF status_awaited
  <2> QED BY <2>2, <2>3
<1>7. CASE status_error
  BY <1>3, <1>4, <1>7, PowerAssumption DEF status_error, PowerTypeOK, PlaceInv
<1> QED BY <1>5, <1>6, <1>7

LEMMA SetInv ==
    ASSUME PInv, pm_set_for_device
    PROVE  PInv'
<1> USE DEF PInv, pm_set_for_device
<1>1. index \in Positions /\ Node \in DeviceSet /\ index \in Nat
  <2>1. index \in Positions
    BY ListFacts
  <2> QED BY <2>1, NodeIs, ListFacts DEF PowerTypeOK, Positions
<1>2. PowerTypeOK' /\ PlaceInv' /\ PanelInv'
  <2>1. Tries \in 0..Tries /\ Tries # 0
    BY PowerAssumption
  <2>2. PowerTypeOK'
    BY <1>1, <2>1 DEF PowerTypeOK
  <2> QED BY <1>1, <2>1, <2>2 DEF PlaceInv, PanelInv
<1>3. \A k \in Positions : /\ (Past(k)' <=> Past(k))
                            /\ (Handled(k)' <=> (Handled(k) \/ Turn(on, k) = index))
                            /\ Past(k) => Turn(on, k) # index
  BY <1>1, PowerFacts DEF Past, Handled, Turn
<1>4. \A k \in Positions : Turn(on, k) = index <=> Devices[k] = Node
  <2>1. \A k \in Positions : Turn(on, k) = index => Devices[k] = Node
    BY TurnFacts DEF Node, PowerTypeOK
  <2>2. PICK p \in Positions : Turn(on, p) = index /\ Node = Devices[p]
    BY <1>1, NodeIs DEF PowerTypeOK
  <2> QED BY <2>1, <2>2, ListFacts
<1>5. \A k \in Positions : Devices[k] # Node => (Devices[k] \in Obeying' <=> Devices[k] \in Obeying)
  BY DEF Obeying
<1>6. ActiveInv'
  <2>1. SUFFICES ASSUME on, NEW k \in Positions, Past(k)', Devices[k] \in Obeying' \ gaveUp
                 PROVE  status[Devices[k]] = "active"
    BY DEF ActiveInv
  <2>2. Turn(on, k) < index /\ Turn(on, k) \in Nat
    BY <2>1, PowerFacts DEF Past, Turn
  <2>3. Past(k) /\ Turn(on, k) # index
    BY <1>1, <2>2 DEF Past
  <2>4. Devices[k] # Node
    BY <1>4, <2>3
  <2>5. Devices[k] \in Obeying \ gaveUp
    BY <2>1, <2>4, <1>5
  <2> QED BY <2>1, <2>3, <2>5 DEF ActiveInv
<1>7. WalkInv'
  <2>1. PICK before \in {"on", "auto"} : \A k \in Positions :
          Devices[k] \in Obeying => control[Devices[k]] = IF Handled(k) THEN Wanted ELSE before
    BY DEF WalkInv
  <2>2. Wanted' = Wanted /\ control' = [control EXCEPT ![Node] = Wanted]
    BY DEF Wanted
  <2>3. ASSUME NEW k \in Positions, Devices[k] \in Obeying'
        PROVE  control'[Devices[k]] = IF Handled(k)' THEN Wanted' ELSE before
    <3>1. Devices[k] \in DeviceSet /\ control \in [DeviceSet -> {"on", "auto"}]
      BY PowerFacts
    <3>2. CASE Devices[k] = Node
      <4>1. Handled(k)'
        BY <1>4, <3>2 DEF Handled, Turn
      <4>2. control'[Devices[k]] = Wanted
        BY <2>2, <3>1, <3>2
      <4> QED BY <4>1, <4>2, <2>2
    <3>3. CASE Devices[k] # Node
      <4>1. (Handled(k)' <=> Handled(k)) /\ Devices[k] \in Obeying
        BY <1>3, <1>4, <1>5, <2>3, <3>3 DEF Handled, Past, Turn
      <4>2. control'[Devices[k]] = control[Devices[k]]
        BY <2>2, <3>1, <3>3
      <4> QED BY <4>1, <4>2, <2>1, <2>2
    <3> QED BY <3>2, <3>3
  <2> QED BY <2>3 DEF WalkInv
<1> QED BY <1>2, <1>6, <1>7

\* past the end of the list every device has been told
LEMMA WalkEnds ==
    ASSUME PInv, ppc = "device", index \notin DOMAIN Devices
    PROVE  \A k \in Positions : Past(k) /\ Handled(k)
<1>1. index = N + 1 /\ N \in Nat
  BY ListFacts DEF PInv, PlaceInv, Positions
<1>2. \A k \in Positions : Turn(on, k) \in 1..N
  BY TurnFacts DEF PInv, PowerTypeOK, Positions
<1>3. \A k \in Positions : Turn(on, k) < index
  BY <1>1, <1>2
<1> QED BY <1>3 DEF Past, Handled

LEMMA PanelStepInv ==
    ASSUME PInv, set_sleep \/ set_bl_power
    PROVE  PInv'
<1> USE DEF PInv
<1>1. PowerTypeOK'
  <2>1. missed' \subseteq DeviceSet \union {"sleep", "bl_power"}
    BY DEF set_sleep, set_bl_power, PowerTypeOK
  <2>2. {sleep', bl_power'} \subseteq {0, 1}
    BY DEF set_sleep, set_bl_power, PowerTypeOK
  <2>3. ppc' \in {"idle", "bl_power"} /\ index' \in {0, index} /\ count' \in {0, count}
    BY DEF set_sleep, set_bl_power
  <2>4. UNCHANGED <<on, errors, control, status, gaveUp>>
    BY DEF set_sleep, set_bl_power
  <2>5. 0 \in 0..Tries /\ 0 \in 0..(Len(Devices) + 1)
    BY ListFacts, PowerAssumption DEF N
  <2> QED BY <2>1, <2>2, <2>3, <2>4, <2>5 DEF PowerTypeOK
<1>2. PlaceInv' /\ PanelInv'
  BY DEF set_sleep, set_bl_power, PlaceInv, PanelInv
<1>3. \A k \in Positions : Past(k) /\ Handled(k) /\ Past(k)' /\ Handled(k)'
  BY WalkEnds DEF set_sleep, set_bl_power, Past, Handled
<1>4. /\ \A k \in Positions : Devices[k] \in Obeying' <=> Devices[k] \in Obeying
      /\ UNCHANGED <<on, control, status, gaveUp>>
  BY ListFacts DEF set_sleep, set_bl_power, Obeying
<1>5. ActiveInv'
  BY <1>3, <1>4 DEF ActiveInv
<1>6. WalkInv'
  BY <1>3, <1>4 DEF WalkInv, Wanted
<1> QED BY <1>1, <1>2, <1>5, <1>6

LEMMA KernelInv ==
    ASSUME PInv, NEW d \in DeviceSet, runtime_pm(d)
    PROVE  PInv'
<1> USE DEF PInv, runtime_pm
<1>1. PowerTypeOK' /\ PlaceInv' /\ PanelInv'
  BY DEF PowerTypeOK, PlaceInv, PanelInv
<1>2. Obeying' = Obeying /\ \A k \in Positions : (Past(k)' <=> Past(k)) /\ (Handled(k)' <=> Handled(k))
  BY DEF Obeying, Past, Handled, Turn
<1>3. WalkInv'
  BY <1>2 DEF WalkInv, Wanted
<1>4. ActiveInv'
  <2>1. SUFFICES ASSUME on, NEW k \in Positions, Past(k), Devices[k] \in Obeying \ gaveUp
                 PROVE  status'[Devices[k]] = "active"
    BY <1>2 DEF ActiveInv
  <2>2. status[Devices[k]] = "active" /\ control[Devices[k]] = "on"
    BY <2>1 DEF ActiveInv, WalkInv, Handled, Past, Wanted
  <2>3. status \in [DeviceSet -> {"active", "suspended", "unsupported"}] /\ Devices[k] \in DeviceSet
    BY ListFacts DEF PowerTypeOK
  <2> QED BY <2>2, <2>3
<1> QED BY <1>1, <1>3, <1>4

LEMMA PowerInitInv == PowerInit => PInv
<1> SUFFICES ASSUME PowerInit PROVE PInv
  OBVIOUS
<1> USE DEF PowerInit
<1>1. PowerTypeOK
  <2>1. 0 \in 0..(Len(Devices) + 1) /\ 0 \in 0..Tries /\ 0 \in 0..MaxReadErrors
    BY ListFacts, PowerAssumption DEF N
  <2> QED BY <2>1 DEF PowerTypeOK
<1>2. PlaceInv /\ PanelInv
  BY DEF PlaceInv, PanelInv
<1>3. ActiveInv
  BY ListFacts DEF ActiveInv, Obeying
<1>4. WalkInv
  <2>1. Wanted = "on" /\ \A k \in Positions : control[Devices[k]] = "on"
    BY ListFacts DEF Wanted
  <2>2. \A k \in Positions : Devices[k] \in Obeying =>
          control[Devices[k]] = IF Handled(k) THEN Wanted ELSE "on"
    BY <2>1
  <2>3. "on" \in {"on", "auto"}
    OBVIOUS
  <2> QED BY <2>2, <2>3, Zenon DEF WalkInv
<1> QED BY <1>1, <1>2, <1>3, <1>4 DEF PInv

LEMMA PowerStepInv == PInv /\ [PowerNext]_powerVars => PInv'
<1> SUFFICES ASSUME PInv, [PowerNext]_powerVars PROVE PInv'
  OBVIOUS
<1>1. CASE UNCHANGED powerVars
  BY <1>1 DEF powerVars, kernelVars, PInv, PowerTypeOK, PlaceInv, WalkInv, ActiveInv, PanelInv,
              Handled, Past, Turn, Wanted, Obeying
<1>2. ASSUME NEW b \in BOOLEAN, power_set_interactive(b) PROVE PInv'
  BY <1>2, BeginInv
<1>3. CASE PowerStep
  BY <1>3, SkipInv, SetInv, WaitInv, PanelStepInv DEF PowerStep, PowerGoes
<1>4. ASSUME NEW d \in DeviceSet, runtime_pm(d) PROVE PInv'
  BY <1>4, KernelInv
<1> QED BY <1>1, <1>2, <1>3, <1>4 DEF PowerNext

-----------------------------------------------------------------------------
(* The lights *)

LEMMA BrightnessRange ==
    ASSUME NEW c \in Colors PROVE to_xo4_brightness(rgb_to_brightness(c)) \in 0..15
<1>1. c[1] \in 0..255 /\ c[2] \in 0..255 /\ c[3] \in 0..255
  BY LightAssumption
<1>2. \A r, g, b \in 0..255 : (77 * r + 150 * g + 29 * b) \div 256 \in 0..255
  OBVIOUS
<1>3. rgb_to_brightness(c) \in 0..255
  BY <1>1, <1>2, ZenonT(40) DEF rgb_to_brightness
<1> QED BY <1>3 DEF to_xo4_brightness

LEMMA LightStepInv == LInv /\ [LightNext]_lightVars => LInv'
<1> SUFFICES ASSUME LInv, [LightNext]_lightVars PROVE LInv'
  OBVIOUS
<1> USE DEF LInv, LightTypeOK, LightInv
<1>1. CASE UNCHANGED lightVars
  BY <1>1 DEF lightVars
<1>2. ASSUME NEW c \in Colors, set_light_backlight(c) PROVE LInv'
  BY <1>2, BrightnessRange DEF set_light_backlight
<1>3. CASE set_xo4_monochrome
  BY <1>3 DEF set_xo4_monochrome
<1>4. CASE write_brightness
  BY <1>4 DEF write_brightness
<1> QED BY <1>1, <1>2, <1>3, <1>4 DEF LightNext, LightStep

-----------------------------------------------------------------------------
(* The sensors *)

\* the events poll has still to read, and one that would tell what is now
Now == [type |-> "syn", read |-> axes, lost |-> {}]
Last == Len(queue) + 1
Event(p) == IF p = Last THEN Now ELSE queue[p]

Tells(e, a) == e.type = "abs" /\ e.code = a
Touches(e, a) == IF e.type = "abs" THEN e.code = a ELSE a \in e.lost

(* What a sync event carries is, of each axis, what the last event before  *)
(* it tells, unless that was dropped; and what poll knows if there is none.*)
QueueInv ==
    \A p \in 1..Last, a \in Axes : Event(p).type = "syn" =>
        /\ \A q \in 1..(p - 1) :
              Tells(Event(q), a) /\ (\A r \in (q + 1)..p : ~ Touches(Event(r), a))
              => Event(q).value = Event(p).read[a]
        /\ (\A r \in 1..p : ~ Touches(Event(r), a)) /\ a \notin stale
           => raw[a] = Event(p).read[a]

SInv == SensorTypeOK /\ QueueInv /\ SampleIsReading

Kinds == AxisEvents \union SyncEvents

LEMMA EventFacts ==
    ASSUME SensorTypeOK
    PROVE  /\ Len(queue) \in Nat /\ Last \in Nat /\ Last = Len(queue) + 1
           /\ queue \in Seq(Kinds) /\ Now \in SyncEvents
           /\ \A p \in 1..Last : Event(p) \in Kinds
           /\ \A p \in 1..Len(queue) : Event(p) = queue[p]
           /\ Event(Last) = Now
<1>1. queue \in Seq(Kinds) /\ axes \in Readings
  BY DEF SensorTypeOK, Kinds
<1>2. Len(queue) \in Nat /\ queue \in [1..Len(queue) -> Kinds]
  BY <1>1, LenProperties
<1>3. Now \in SyncEvents
  BY <1>1 DEF Now, SyncEvents
<1> QED BY <1>1, <1>2, <1>3 DEF Last, Event, Kinds

\* poll reads an event: the others keep their order
LEMMA ReadShifts ==
    ASSUME SensorTypeOK, queue # << >>, queue' = Tail(queue), axes' = axes
    PROVE  /\ Last' = Last - 1 /\ Last \in Nat /\ Last > 1
           /\ \A p \in 1..Last' : Event(p)' = Event(p + 1)
           /\ queue' \in Seq(Kinds) /\ Len(queue') < QueueSize
           /\ Event(1) = Head(queue) /\ Head(queue) \in Kinds
<1>1. queue \in Seq(Kinds) /\ Len(queue) \in Nat /\ Len(queue) < QueueSize /\ QueueSize \in Nat
  BY EventFacts, SensorAssumption DEF SensorTypeOK
<1>2. /\ Len(Tail(queue)) = Len(queue) - 1 /\ Tail(queue) \in Seq(Kinds) /\ Head(queue) \in Kinds
      /\ \A i \in 1..Len(Tail(queue)) : Tail(queue)[i] = queue[i + 1]
  BY <1>1, HeadTailProperties
<1>3. Len(queue) > 0 /\ Head(queue) = queue[1]
  BY <1>1
<1>4. /\ Last' = Last - 1 /\ Last \in Nat /\ Last > 1
      /\ Len(Tail(queue)) \in Nat /\ Last' = Len(Tail(queue)) + 1
  BY <1>1, <1>2, <1>3 DEF Last
<1>5. ASSUME NEW p \in 1..Last' PROVE Event(p)' = Event(p + 1)
  <2>1. CASE p = Last'
    BY <1>4, <2>1 DEF Event, Now
  <2>2. CASE p # Last'
    <3>1. p \in 1..Len(Tail(queue)) /\ p + 1 # Last
      BY <1>4, <2>2
    <3> QED BY <1>2, <2>2, <3>1 DEF Event
  <2> QED BY <2>1, <2>2
<1>6. Event(1) = Head(queue)
  BY <1>3, <1>4 DEF Event
<1> QED BY <1>1, <1>2, <1>4, <1>5, <1>6

\* ... and so do those that tell nothing of an axis
LEMMA QuietShifts ==
    ASSUME SensorTypeOK, queue # << >>, queue' = Tail(queue), axes' = axes,
           NEW p \in 1..Last', NEW q \in 1..p, NEW a, \A r \in q..p : ~ Touches(Event(r)', a)
    PROVE  \A r \in (q + 1)..(p + 1) : ~ Touches(Event(r), a)
<1> TAKE r \in (q + 1)..(p + 1)
<1>1. r - 1 \in q..p /\ r - 1 \in 1..Last' /\ (r - 1) + 1 = r
  BY ReadShifts
<1>2. Event(r - 1)' = Event(r)
  BY <1>1, ReadShifts
<1> QED BY <1>1, <1>2

LEMMA AxisKept ==
    ASSUME SInv, get_axis
    PROVE  SInv'
<1>1. /\ queue # << >> /\ queue' = Tail(queue) /\ axes' = axes /\ SensorTypeOK
      /\ UNCHANGED <<polling, filled, sample, reading, trusted>>
  BY DEF get_axis, SInv
<1>2. Event(1) \in AxisEvents
  BY <1>1, ReadShifts DEF get_axis, Kinds, SyncEvents
<1>3. raw \in Readings
  BY <1>1 DEF SensorTypeOK
<1> DEFINE c == Event(1).code
<1>4. /\ c \in Axes /\ Event(1).value \in Values /\ Event(1).type = "abs"
      /\ raw' = [raw EXCEPT ![c] = Event(1).value] /\ stale' = stale \ {c}
  BY <1>1, <1>2, ReadShifts DEF get_axis, AxisEvents
<1>5. SensorTypeOK'
  BY <1>1, <1>3, <1>4, ReadShifts DEF SensorTypeOK, Readings, Kinds
<1>6. QueueInv'
  <2> SUFFICES ASSUME NEW p \in 1..Last', NEW a \in Axes, Event(p)'.type = "syn"
               PROVE  /\ \A q \in 1..(p - 1) :
                           Tells(Event(q)', a) /\ (\A r \in (q + 1)..p : ~ Touches(Event(r)', a))
                           => Event(q)'.value = Event(p)'.read[a]
                      /\ (\A r \in 1..p : ~ Touches(Event(r)', a)) /\ a \notin stale'
                         => raw'[a] = Event(p)'.read[a]
    BY DEF QueueInv, Tells, Touches
  <2>1. /\ p + 1 \in 1..Last /\ Event(p + 1).type = "syn" /\ Event(p)' = Event(p + 1)
        /\ p \in Nat
    BY <1>1, ReadShifts
  <2>2. ASSUME NEW q \in 1..p, \A r \in q..p : ~ Touches(Event(r)', a)
        PROVE  \A r \in (q + 1)..(p + 1) : ~ Touches(Event(r), a)
    BY <1>1, <2>1, <2>2, QuietShifts
  <2>3. ASSUME NEW q \in 1..(p - 1), Tells(Event(q)', a),
               \A r \in (q + 1)..p : ~ Touches(Event(r)', a)
        PROVE  Event(q)'.value = Event(p)'.read[a]
    <3>1. /\ q + 1 \in 1..((p + 1) - 1) /\ Event(q)' = Event(q + 1) /\ q + 1 \in 1..p
      BY <1>1, <2>1, ReadShifts
    <3>2. \A r \in ((q + 1) + 1)..(p + 1) : ~ Touches(Event(r), a)
      BY <2>2, <2>3, <3>1
    <3> QED BY <2>1, <2>3, <3>1, <3>2 DEF SInv, QueueInv
  <2>4. ASSUME \A r \in 1..p : ~ Touches(Event(r)', a), a \notin stale'
        PROVE  raw'[a] = Event(p)'.read[a]
    <3>1. 1 \in 1..p /\ 1 \in 1..((p + 1) - 1)
      BY <2>1
    <3>2. \A r \in (1 + 1)..(p + 1) : ~ Touches(Event(r), a)
      BY <2>2, <2>4, <3>1
    <3>3. CASE a = c
      <4>1. Event(1).value = Event(p + 1).read[a]
        BY <1>4, <2>1, <3>1, <3>2, <3>3 DEF SInv, QueueInv, Tells
      <4> QED BY <1>3, <1>4, <2>1, <3>3, <4>1 DEF Readings
    <3>4. CASE a # c
      <4>1. \A r \in 1..(p + 1) : ~ Touches(Event(r), a)
        BY <1>4, <2>1, <3>2, <3>4 DEF Touches
      <4>2. raw[a] = Event(p + 1).read[a]
        BY <1>4, <2>1, <2>4, <3>4, <4>1 DEF SInv, QueueInv
      <4> QED BY <1>3, <1>4, <2>1, <3>4, <4>2 DEF Readings
    <3> QED BY <3>3, <3>4
  <2> QED BY <2>3, <2>4
<1>7. SampleIsReading'
  BY <1>1 DEF SInv, SampleIsReading
<1> QED BY <1>5, <1>6, <1>7 DEF SInv

LEMMA SyncKept ==
    ASSUME SInv, get_sync
    PROVE  SInv'
<1>1. /\ queue # << >> /\ queue' = Tail(queue) /\ axes' = axes /\ SensorTypeOK
      /\ raw' = raw /\ sample' = raw /\ trusted' = Axes \ stale'
  BY DEF get_sync, SInv
<1>2. Event(1) \in SyncEvents /\ Event(1) = Head(queue) /\ Event(1).type = "syn"
  BY <1>1, ReadShifts DEF get_sync, Kinds, AxisEvents
<1>3. /\ Event(1).read \in Readings /\ Event(1).lost \subseteq Axes
      /\ reading' = Event(1).read /\ stale' = stale \union Event(1).lost
  BY <1>2 DEF get_sync, SyncEvents
<1>4. filled' \in 0..(Count - 1) /\ polling' \in BOOLEAN
  <2>1. filled \in 0..(Count - 1) /\ polling \in BOOLEAN /\ Count \in Nat \ {0}
    BY <1>1, SensorAssumption DEF SensorTypeOK
  <2>2. filled' = 0 \/ (filled + 1 < Count /\ filled' = filled + 1)
    BY DEF get_sync
  <2>3. polling' \in BOOLEAN
    BY <2>1 DEF get_sync
  <2>4. filled' \in 0..(Count - 1)
    BY <2>1, <2>2
  <2> QED BY <2>3, <2>4
<1>5. SensorTypeOK'
  BY <1>1, <1>3, <1>4, ReadShifts DEF SensorTypeOK, Kinds
<1>6. QueueInv'
  <2> SUFFICES ASSUME NEW p \in 1..Last', NEW a \in Axes, Event(p)'.type = "syn"
               PROVE  /\ \A q \in 1..(p - 1) :
                           Tells(Event(q)', a) /\ (\A r \in (q + 1)..p : ~ Touches(Event(r)', a))
                           => Event(q)'.value = Event(p)'.read[a]
                      /\ (\A r \in 1..p : ~ Touches(Event(r)', a)) /\ a \notin stale'
                         => raw'[a] = Event(p)'.read[a]
    BY DEF QueueInv, Tells, Touches
  <2>1. /\ p + 1 \in 1..Last /\ Event(p + 1).type = "syn" /\ Event(p)' = Event(p + 1)
        /\ p \in Nat
    BY <1>1, ReadShifts
  <2>2. ASSUME NEW q \in 1..p, \A r \in q..p : ~ Touches(Event(r)', a)
        PROVE  \A r \in (q + 1)..(p + 1) : ~ Touches(Event(r), a)
    BY <1>1, <2>1, <2>2, QuietShifts
  <2>3. ASSUME NEW q \in 1..(p - 1), Tells(Event(q)', a),
               \A r \in (q + 1)..p : ~ Touches(Event(r)', a)
        PROVE  Event(q)'.value = Event(p)'.read[a]
    <3>1. /\ q + 1 \in 1..((p + 1) - 1) /\ Event(q)' = Event(q + 1) /\ q + 1 \in 1..p
      BY <1>1, <2>1, ReadShifts
    <3>2. \A r \in ((q + 1) + 1)..(p + 1) : ~ Touches(Event(r), a)
      BY <2>2, <2>3, <3>1
    <3> QED BY <2>1, <2>3, <3>1, <3>2 DEF SInv, QueueInv
  <2>4. ASSUME \A r \in 1..p : ~ Touches(Event(r)', a), a \notin stale'
        PROVE  raw'[a] = Event(p)'.read[a]
    <3>1. 1 \in 1..p
      BY <2>1
    <3>2. \A r \in (1 + 1)..(p + 1) : ~ Touches(Event(r), a)
      BY <2>2, <2>4, <3>1
    <3>3. \A r \in 1..(p + 1) : ~ Touches(Event(r), a)
      BY <1>2, <1>3, <2>1, <2>4, <3>2 DEF Touches
    <3> QED BY <1>1, <1>3, <2>1, <2>4, <3>3 DEF SInv, QueueInv
  <2> QED BY <2>3, <2>4
<1>7. SampleIsReading'
  <2> SUFFICES ASSUME NEW a \in Axes, a \notin stale, a \notin Event(1).lost
               PROVE  raw[a] = Event(1).read[a]
    BY <1>1, <1>3 DEF SampleIsReading
  <2>1. 1 \in 1..Last /\ \A r \in 1..1 : r = 1
    BY <1>1, ReadShifts
  <2> QED BY <1>2, <2>1 DEF SInv, QueueInv, Touches
<1> QED BY <1>5, <1>6, <1>7 DEF SInv

\* an event that is neither an old one nor of an axis
LEMMA LateFacts ==
    ASSUME NEW x \in Nat, NEW y \in Nat, x = y + 1, NEW n \in Nat,
           NEW i \in 1..(x + n + 1), i \notin 1..y, ~ (i \in x..(x + n - 1))
    PROVE  i \in {x + n, x + n + 1} /\ i \in Nat
OBVIOUS

\* the kernel appends the events of a reading r, of n axes
LEMMA FitKept ==
    ASSUME SensorTypeOK, QueueInv, NEW r \in Readings, axes' = r, NEW n \in Nat,
           UNCHANGED <<raw, stale>>, Last' = Last + n + 1,
           \A p \in 1..Len(queue) : Event(p)' = Event(p),
           \A p \in Last..(Last + n - 1) :
              /\ Event(p)' \in AxisEvents
              /\ Event(p)'.value = r[Event(p)'.code]
              /\ r[Event(p)'.code] # axes[Event(p)'.code],
           \A p \in {Last + n, Last + n + 1} :
              Event(p)' = [type |-> "syn", read |-> r, lost |-> {}],
           \A a \in Axes : r[a] # axes[a] =>
              \E p \in Last..(Last + n - 1) : Tells(Event(p)', a)
    PROVE  QueueInv'
<1> SUFFICES ASSUME NEW p \in 1..Last', NEW a \in Axes, Event(p)'.type = "syn"
             PROVE  /\ \A q \in 1..(p - 1) :
                         Tells(Event(q)', a) /\ (\A k \in (q + 1)..p : ~ Touches(Event(k)', a))
                         => Event(q)'.value = Event(p)'.read[a]
                    /\ (\A k \in 1..p : ~ Touches(Event(k)', a)) /\ a \notin stale'
                       => raw'[a] = Event(p)'.read[a]
  BY DEF QueueInv, Tells, Touches
<1>0. /\ Last \in Nat /\ Last \in 1..Last /\ Last = Len(queue) + 1 /\ Len(queue) \in Nat
      /\ Event(Last) = Now /\ Now.type = "syn" /\ Now.read = axes /\ Now.lost = {}
  BY EventFacts DEF Now
<1>1. CASE p \in 1..Len(queue)
  <2>1. \A k \in 1..p : Event(k)' = Event(k)
    BY <1>0, <1>1
  <2>2. p \in 1..Last /\ p \in 1..p /\ \A q \in 1..(p - 1) : q \in 1..p /\ (q + 1)..p \subseteq 1..p
    BY <1>0, <1>1
  <2> QED BY <2>1, <2>2 DEF QueueInv
<1>2. CASE p \notin 1..Len(queue)
  <2>1. p \in {Last + n, Last + n + 1} /\ p \in Nat
    <3>1. ~ (p \in Last..(Last + n - 1))
      BY DEF AxisEvents
    <3> QED BY <1>0, <1>2, <3>1, LateFacts
  <2>2. Event(p)'.read[a] = r[a]
    BY <2>1
  <2>3. CASE r[a] = axes[a]
    <3>1. ASSUME NEW k \in Last..p
          PROVE  ~ Tells(Event(k)', a) /\ k \in Last..(Last + n + 1)
      <4>1. k \in Last..(Last + n - 1) \/ k \in {Last + n, Last + n + 1}
        BY ONLY <1>0, <2>1, n \in Nat, k \in Last..p
      <4>2. k \in Last..(Last + n + 1)
        BY ONLY <1>0, <2>1, n \in Nat, k \in Last..p
      <4>3. CASE k \in Last..(Last + n - 1)
        BY <2>3, <4>3 DEF Tells
      <4>4. CASE k \in {Last + n, Last + n + 1}
        BY <4>4 DEF Tells
      <4> QED BY <4>1, <4>2, <4>3, <4>4
    <3>2. ASSUME NEW q \in 1..(p - 1), Tells(Event(q)', a),
                 \A k \in (q + 1)..p : ~ Touches(Event(k)', a)
          PROVE  Event(q)'.value = r[a]
      <4>1. q \in 1..(Last - 1) /\ Event(q)' = Event(q)
        <5>1. q \notin Last..p
          BY <3>1, <3>2
        <5> QED BY <1>0, <2>1, <5>1
      <4>2. \A k \in (q + 1)..Last : ~ Touches(Event(k), a)
        <5> TAKE k \in (q + 1)..Last
        <5>1. CASE k = Last
          BY <1>0, <5>1 DEF Touches
        <5>2. CASE k # Last
          <6>1. k \in (q + 1)..p /\ k \in 1..Len(queue)
            BY <1>0, <2>1, <4>1, <5>2
          <6> QED BY <3>2, <6>1
        <5> QED BY <5>1, <5>2
      <4>3. Event(q).value = axes[a]
        BY <1>0, <3>2, <4>1, <4>2 DEF QueueInv
      <4> QED BY <2>3, <4>1, <4>3
    <3>3. ASSUME \A k \in 1..p : ~ Touches(Event(k)', a), a \notin stale'
          PROVE  raw'[a] = r[a]
      <4>1. \A k \in 1..Last : ~ Touches(Event(k), a)
        <5> TAKE k \in 1..Last
        <5>1. CASE k = Last
          BY <1>0, <5>1 DEF Touches
        <5>2. CASE k # Last
          <6>1. k \in 1..p /\ k \in 1..Len(queue)
            BY <1>0, <2>1, <5>2
          <6> QED BY <3>3, <6>1
        <5> QED BY <5>1, <5>2
      <4> QED BY <1>0, <2>3, <3>3, <4>1 DEF QueueInv
    <3> QED BY <2>2, <3>2, <3>3
  <2>4. CASE r[a] # axes[a]
    <3>1. PICK j \in Last..(Last + n - 1) : Tells(Event(j)', a)
      BY <2>4
    <3>2. j \in 1..p /\ Touches(Event(j)', a)
      BY <1>0, <2>1, <3>1 DEF Tells, Touches
    <3>3. ASSUME NEW q \in 1..(p - 1), Tells(Event(q)', a),
                 \A k \in (q + 1)..p : ~ Touches(Event(k)', a)
          PROVE  Event(q)'.value = r[a]
      <4>1. q \in Last..(Last + n + 1)
        <5>1. j \notin (q + 1)..p
          BY <3>2, <3>3
        <5> QED BY <1>0, <2>1, <3>1, <3>2, <5>1
      <4>2. q \notin {Last + n, Last + n + 1}
        BY <3>3 DEF Tells
      <4>3. q \in Last..(Last + n - 1)
        <5>1. \A x, m \in Nat : \A y \in x..(x + m + 1) :
                y # x + m /\ y # x + m + 1 => y \in x..(x + m - 1)
          OBVIOUS
        <5> QED BY <1>0, <4>1, <4>2, <5>1
      <4> QED BY <3>3, <4>3 DEF Tells
    <3> QED BY <2>2, <3>2, <3>3
  <2> QED BY <2>3, <2>4
<1> QED BY <1>1, <1>2

\* the queue was full: the reader is told so, and of the events that are left
LEMMA FullKept ==
    ASSUME SensorTypeOK, QueueInv, NEW r \in Readings, axes' = r, UNCHANGED <<raw, stale>>,
           NEW lost \in SUBSET Axes, NEW n \in Nat, Last' = n + 3,
           Event(1)' = [type |-> "syn", read |-> axes, lost |-> lost],
           \A p \in 1..Len(queue), a \in Axes : Touches(Event(p), a) => a \in lost,
           \A p \in 2..(n + 1) : Event(p)' \in AxisEvents /\ Event(p)'.value = r[Event(p)'.code],
           \A p \in {n + 2, n + 3} : Event(p)' = [type |-> "syn", read |-> r, lost |-> {}],
           \A a \in Axes : r[a] # axes[a] =>
              a \in lost \/ \E p \in 2..(n + 1) : Tells(Event(p)', a)
    PROVE  QueueInv'
<1> SUFFICES ASSUME NEW p \in 1..Last', NEW a \in Axes, Event(p)'.type = "syn"
             PROVE  /\ \A q \in 1..(p - 1) :
                         Tells(Event(q)', a) /\ (\A k \in (q + 1)..p : ~ Touches(Event(k)', a))
                         => Event(q)'.value = Event(p)'.read[a]
                    /\ (\A k \in 1..p : ~ Touches(Event(k)', a)) /\ a \notin stale'
                       => raw'[a] = Event(p)'.read[a]
  BY DEF QueueInv, Tells, Touches
<1>0. /\ Last \in Nat /\ Last \in 1..Last /\ Last = Len(queue) + 1 /\ Len(queue) \in Nat
      /\ Event(Last) = Now /\ Now.type = "syn" /\ Now.read = axes /\ Now.lost = {}
  BY EventFacts DEF Now
<1>1. p = 1 \/ p \in {n + 2, n + 3}
  <2>1. ~ (p \in 2..(n + 1))
    BY DEF AxisEvents
  <2> QED BY <2>1
<1>2. ASSUME NEW q \in 1..(p - 1), Tells(Event(q)', a)
      PROVE  Event(q)'.value = Event(p)'.read[a]
  <2>1. p \in {n + 2, n + 3} /\ p \in Nat
    BY <1>1, <1>2
  <2>2. q # 1 /\ q \notin {n + 2, n + 3}
    BY <1>2 DEF Tells
  <2>3. q \in 2..(n + 1)
    BY <2>1, <2>2
  <2>4. Event(q)'.value = r[a]
    BY <1>2, <2>3 DEF Tells
  <2> QED BY <2>1, <2>4
<1>3. ASSUME \A k \in 1..p : ~ Touches(Event(k)', a), a \notin stale'
      PROVE  raw'[a] = Event(p)'.read[a]
  <2>1. 1 \in 1..p /\ p \in Nat
    OBVIOUS
  <2>2. a \notin lost
    BY <1>3, <2>1 DEF Touches
  <2>3. raw[a] = axes[a]
    <3>1. \A k \in 1..Last : ~ Touches(Event(k), a)
      <4> TAKE k \in 1..Last
      <4>1. CASE k = Last
        BY <1>0, <4>1 DEF Touches
      <4>2. CASE k # Last
        <5>1. k \in 1..Len(queue)
          BY <1>0, <4>2
        <5> QED BY <2>2, <5>1
      <4> QED BY <4>1, <4>2
    <3> QED BY <1>0, <1>3, <3>1 DEF QueueInv
  <2>4. CASE p = 1
    BY <2>3, <2>4
  <2>5. CASE p \in {n + 2, n + 3}
    <3>1. 2..(n + 1) \subseteq 1..p
      BY <2>5
    <3>2. \A k \in 2..(n + 1) : ~ Tells(Event(k)', a)
      BY <1>3, <3>1 DEF Tells, Touches
    <3>3. r[a] = axes[a]
      BY <2>2, <3>2
    <3>4. Event(p)'.read = r
      BY <2>5
    <3> QED BY <2>3, <3>3, <3>4
  <2> QED BY <1>1, <2>4, <2>5
<1> QED BY <1>2, <1>3

LEMMA PacketFacts ==
    ASSUME SensorTypeOK, NEW r \in Readings, NEW packet \in Packets(r)
    PROVE  \E m \in Nat :
              /\ m <= Cardinality(Axes) /\ packet \in Seq(Kinds) /\ Len(packet) = m + 1
              /\ \A k \in 1..m : /\ packet[k] \in AxisEvents
                                 /\ packet[k].value = r[packet[k].code]
                                 /\ r[packet[k].code] # axes[packet[k].code]
              /\ packet[m + 1] = [type |-> "syn", read |-> r, lost |-> {}]
              /\ \A a \in Axes : r[a] # axes[a] => \E k \in 1..m : Tells(packet[k], a)
<1> DEFINE changed == {a \in Axes : r[a] # axes[a]}
           m == Cardinality(changed)
           sync == [type |-> "syn", read |-> r, lost |-> {}]
<1>1. m \in Nat /\ m <= Cardinality(Axes)
  BY SensorAssumption, FS_Subset, FS_CardinalityType
<1>2. PICK order \in [1..m -> changed] :
        /\ \A a \in changed : \E k \in DOMAIN order : order[k] = a
        /\ packet = [k \in DOMAIN order |->
                       [type |-> "abs", code |-> order[k], value |-> r[order[k]]]] \o <<sync>>
  BY DEF Packets
<1> HIDE DEF m
<1> DEFINE tells == [k \in 1..m |-> [type |-> "abs", code |-> order[k], value |-> r[order[k]]]]
<1>3. \A k \in 1..m : tells[k] \in AxisEvents
  BY <1>2 DEF AxisEvents, Readings
<1>4. tells \in Seq(Kinds) /\ Len(tells) = m
  BY <1>1, <1>3 DEF Kinds
<1>5. <<sync>> \in Seq(Kinds) /\ Len(<<sync>>) = 1 /\ <<sync>>[1] = sync
  <2>1. sync \in Kinds
    BY DEF Kinds, SyncEvents
  <2> HIDE DEF sync
  <2> QED BY <2>1
<1>6. packet = tells \o <<sync>>
  BY <1>2
<1>7. \A k \in 1..m : /\ tells[k] \in AxisEvents /\ tells[k].value = r[tells[k].code]
                      /\ r[tells[k].code] # axes[tells[k].code] /\ tells[k].code = order[k]
                      /\ tells[k].type = "abs"
  BY <1>2, <1>3
<1> HIDE DEF tells, sync
<1>8. /\ packet \in Seq(Kinds) /\ Len(packet) = m + 1
      /\ \A k \in 1..m : packet[k] = tells[k]
      /\ packet[m + 1] = sync
  <2>1. /\ tells \o <<sync>> \in Seq(Kinds)
        /\ Len(tells \o <<sync>>) = Len(tells) + Len(<<sync>>)
        /\ \A i \in 1..(Len(tells) + Len(<<sync>>)) : (tells \o <<sync>>)[i] =
              IF i <= Len(tells) THEN tells[i] ELSE <<sync>>[i - Len(tells)]
    BY <1>4, <1>5, ConcatProperties
  <2>2. /\ packet \in Seq(Kinds) /\ Len(packet) = m + 1
        /\ \A i \in 1..(m + 1) : packet[i] = IF i <= m THEN tells[i] ELSE <<sync>>[i - m]
    BY <1>4, <1>5, <1>6, <2>1
  <2>3. \A k \in 1..m : packet[k] = tells[k]
    BY <1>1, <2>2
  <2>4. packet[m + 1] = <<sync>>[(m + 1) - m]
    BY <1>1, <2>2
  <2>5. (m + 1) - m = 1
    BY <1>1
  <2> QED BY <1>5, <2>2, <2>3, <2>4, <2>5
<1>9. ASSUME NEW a \in Axes, r[a] # axes[a]
      PROVE  \E k \in 1..m : Tells(packet[k], a)
  <2>1. PICK k \in 1..m : order[k] = a
    BY <1>2, <1>9
  <2> QED BY <1>7, <1>8, <2>1 DEF Tells
<1>10. \A k \in 1..m : /\ packet[k] \in AxisEvents
                       /\ packet[k].value = r[packet[k].code]
                       /\ r[packet[k].code] # axes[packet[k].code]
  BY <1>7, <1>8
<1> m \in Nat
  BY <1>1
<1> WITNESS m \in Nat
<1> QED BY <1>1, <1>8, <1>9, <1>10 DEF sync

\* what report leaves in the queue, event by event
LEMMA FitShape ==
    ASSUME SensorTypeOK, NEW packet \in Seq(Kinds), NEW m \in Nat, Len(packet) = m + 1,
           queue' = queue \o packet
    PROVE  /\ Last' = Last + m + 1 /\ queue' \in Seq(Kinds)
           /\ \A p \in 1..Len(queue) : Event(p)' = Event(p)
           /\ \A p \in Last..(Last + m) : Event(p)' = packet[p - Last + 1]
           /\ \A p \in {Last + m + 1} : Event(p)' = Now'
<1>1. queue \in Seq(Kinds) /\ Len(queue) \in Nat /\ Last = Len(queue) + 1
  BY EventFacts
<1>2. /\ queue' \in Seq(Kinds) /\ Len(queue') = Len(queue) + Len(packet)
      /\ \A i \in 1..(Len(queue) + Len(packet)) : queue'[i] =
            IF i <= Len(queue) THEN queue[i] ELSE packet[i - Len(queue)]
  BY <1>1, ConcatProperties
<1>3. Last' = Last + m + 1
  BY <1>1, <1>2 DEF Last
<1>4. ASSUME NEW p \in 1..Len(queue) PROVE Event(p)' = Event(p)
  <2>1. /\ p \in 1..(Len(queue) + Len(packet)) /\ p <= Len(queue) /\ p # Last'
        /\ p # Last
    BY <1>1, <1>3
  <2> QED BY <1>2, <2>1 DEF Event
<1>5. ASSUME NEW p \in Last..(Last + m) PROVE Event(p)' = packet[p - Last + 1]
  <2>1. /\ p \in 1..(Len(queue) + Len(packet)) /\ ~ (p <= Len(queue)) /\ p # Last'
        /\ p - Len(queue) = p - Last + 1
    BY <1>1, <1>3
  <2> QED BY <1>2, <2>1 DEF Event
<1>6. ASSUME NEW p \in {Last + m + 1} PROVE Event(p)' = Now'
  BY <1>3 DEF Event
<1> QED BY <1>2, <1>3, <1>4, <1>5, <1>6

LEMMA FullShape ==
    ASSUME SensorTypeOK, NEW packet \in Seq(Kinds), NEW m \in Nat, Len(packet) = m + 1,
           m <= Cardinality(Axes), NEW first \in Kinds, NEW all, all = queue \o packet
    PROVE  Len(all) >= QueueSize /\ queue' = <<first>> \o SubSeq(all, QueueSize, Len(all)) =>
           \E n \in 0..m :
              /\ Last' = n + 3 /\ queue' \in Seq(Kinds) /\ Len(queue') < QueueSize
              /\ QueueSize - 1 = Len(queue) + m - n
              /\ Event(1)' = first
              /\ \A p \in 2..(n + 2) : Event(p)' = packet[m - n + p - 1]
              /\ \A p \in {n + 3} : Event(p)' = Now'
<1>0. /\ queue \in Seq(Kinds) /\ Len(queue) \in Nat /\ Len(queue) < QueueSize
      /\ QueueSize \in Nat /\ Cardinality(Axes) \in Nat /\ QueueSize > Cardinality(Axes) + 2
  BY EventFacts, SensorAssumption, FS_CardinalityType DEF SensorTypeOK
<1>1. SUFFICES ASSUME Len(all) >= QueueSize,
                      queue' = <<first>> \o SubSeq(all, QueueSize, Len(all))
               PROVE  \E n \in 0..m :
                         /\ Last' = n + 3 /\ queue' \in Seq(Kinds) /\ Len(queue') < QueueSize
                         /\ QueueSize - 1 = Len(queue) + m - n
                         /\ Event(1)' = first
                         /\ \A p \in 2..(n + 2) : Event(p)' = packet[m - n + p - 1]
                         /\ \A p \in {n + 3} : Event(p)' = Now'
  OBVIOUS
<1>2. /\ all \in Seq(Kinds) /\ Len(all) = Len(queue) + (m + 1)
      /\ \A i \in 1..(Len(queue) + (m + 1)) : all[i] =
            IF i <= Len(queue) THEN queue[i] ELSE packet[i - Len(queue)]
  <2>1. /\ all \in Seq(Kinds) /\ Len(all) = Len(queue) + Len(packet)
        /\ \A i \in 1..(Len(queue) + Len(packet)) : all[i] =
              IF i <= Len(queue) THEN queue[i] ELSE packet[i - Len(queue)]
    BY <1>0, ConcatProperties
  <2> QED BY <2>1
<1>3. PICK n : n = Len(all) - QueueSize
  OBVIOUS
<1>4. n \in 0..m /\ Len(all) = QueueSize + n /\ Len(all) \in Nat
  <2>1. Len(all) >= QueueSize
    BY <1>1
  <2>2. \A x, y, z, w \in Nat :
          x = y + (w + 1) /\ y < z /\ x >= z => x - z \in 0..w /\ x = z + (x - z)
    OBVIOUS
  <2>3. Len(all) \in Nat
    BY <1>0, <1>2
  <2> QED BY <1>0, <1>2, <1>3, <2>1, <2>2, <2>3
<1>5. PICK rest : rest = SubSeq(all, QueueSize, Len(all))
  OBVIOUS
<1>6. /\ rest \in Seq(Kinds) /\ Len(rest) = n + 1
      /\ \A i \in 1..(n + 1) : rest[i] = all[QueueSize + i - 1]
  <2>1. \A i \in QueueSize..Len(all) : all[i] \in Kinds
    <3>1. all \in [1..Len(all) -> Kinds]
      BY <1>2, LenProperties
    <3>2. QueueSize..Len(all) \subseteq 1..Len(all)
      BY <1>0, <1>4
    <3> QED BY <3>1, <3>2
  <2>2. QueueSize \in Int /\ Len(all) \in Int
    BY <1>0, <1>4
  <2>3. /\ rest \in Seq(Kinds)
        /\ Len(rest) = IF QueueSize <= Len(all) THEN Len(all) - QueueSize + 1 ELSE 0
        /\ \A i \in 1..(Len(all) - QueueSize + 1) : rest[i] = all[QueueSize + i - 1]
    <3>1. ASSUME NEW s \in Seq(Kinds), NEW i \in Int, NEW j \in Int,
                 \A k \in i..j : s[k] \in Kinds, i <= j => i \in 1..Len(s) /\ j \in 1..Len(s)
          PROVE  /\ SubSeq(s, i, j) \in Seq(Kinds)
                 /\ Len(SubSeq(s, i, j)) = IF i <= j THEN j - i + 1 ELSE 0
                 /\ \A k \in 1..(j - i + 1) : SubSeq(s, i, j)[k] = s[i + k - 1]
      BY <3>1, SubSeqProperties
    <3>2. /\ all \in Seq(Kinds) /\ QueueSize <= Len(all)
          /\ QueueSize \in 1..Len(all) /\ Len(all) \in 1..Len(all)
      BY <1>0, <1>2, <1>4
    <3> QED BY <1>5, <2>1, <2>2, <3>1, <3>2
  <2>4. QueueSize <= Len(all) /\ Len(all) - QueueSize + 1 = n + 1
    BY <1>0, <1>4
  <2> QED BY <2>3, <2>4
<1>7. <<first>> \in Seq(Kinds) /\ Len(<<first>>) = 1 /\ <<first>>[1] = first
  OBVIOUS
<1>8. /\ queue' \in Seq(Kinds) /\ Len(queue') = 1 + (n + 1)
      /\ \A i \in 1..(1 + (n + 1)) : queue'[i] = IF i <= 1 THEN <<first>>[i] ELSE rest[i - 1]
  <2>1. queue' = <<first>> \o rest
    BY <1>1, <1>5
  <2>2. /\ queue' \in Seq(Kinds) /\ Len(queue') = Len(<<first>>) + Len(rest)
        /\ \A i \in 1..(Len(<<first>>) + Len(rest)) : queue'[i] =
              IF i <= Len(<<first>>) THEN <<first>>[i] ELSE rest[i - Len(<<first>>)]
    <3>1. rest \in Seq(Kinds) /\ <<first>> \in Seq(Kinds)
      BY <1>6, <1>7
    <3> QED BY <2>1, <3>1, ConcatProperties
  <2> QED BY <1>6, <1>7, <2>2
<1>9. Last' = n + 3 /\ Len(queue') < QueueSize /\ QueueSize - 1 = Len(queue) + m - n
  <2>1. Last' = (1 + (n + 1)) + 1
    BY <1>8 DEF Last
  <2>2. /\ Len(queue) \in Nat /\ QueueSize \in Nat /\ n \in 0..m
        /\ Cardinality(Axes) \in Nat /\ QueueSize > Cardinality(Axes) + 2
        /\ Len(queue) + (m + 1) = QueueSize + n
    BY <1>0, <1>2, <1>4
  <2>3. QueueSize - 1 = Len(queue) + m - n
    BY <2>2
  <2>4. 1 + (n + 1) < QueueSize /\ (1 + (n + 1)) + 1 = n + 3
    BY <2>2
  <2> QED BY <1>8, <2>1, <2>3, <2>4
<1>10. Event(1)' = first
  <2>1. 1 # Last' /\ 1 \in 1..(1 + (n + 1)) /\ 1 <= 1
    BY <1>4, <1>9
  <2> QED BY <1>7, <1>8, <2>1 DEF Event
<1>11. ASSUME NEW p \in 2..(n + 2) PROVE Event(p)' = packet[m - n + p - 1]
  <2>1. p # Last' /\ p \in 1..(1 + (n + 1)) /\ ~ (p <= 1) /\ p - 1 \in 1..(n + 1)
    BY <1>4, <1>9
  <2>2. /\ QueueSize + (p - 1) - 1 \in 1..(Len(queue) + (m + 1))
        /\ ~ (QueueSize + (p - 1) - 1 <= Len(queue))
        /\ (QueueSize + (p - 1) - 1) - Len(queue) = m - n + p - 1
    <3>1. /\ Len(queue) \in Nat /\ QueueSize \in Nat /\ n \in 0..m
          /\ QueueSize - 1 = Len(queue) + m - n
      BY <1>0, <1>4, <1>9
    <3> QED BY <3>1, SMTT(30)
  <2>3. Event(p)' = rest[p - 1]
    BY <1>8, <2>1 DEF Event
  <2> QED BY <1>2, <1>6, <2>1, <2>2, <2>3
<1>12. ASSUME NEW p \in {n + 3} PROVE Event(p)' = Now'
  BY <1>9 DEF Event
<1> n \in 0..m
  BY <1>4
<1> WITNESS n \in 0..m
<1> QED BY <1>8, <1>9, <1>10, <1>11, <1>12

\* the axes of the events that are dropped
LEMMA ToldFacts ==
    ASSUME NEW s \in Seq(Kinds)
    PROVE  /\ Told(s) \subseteq Axes
           /\ \A k \in 1..Len(s), a \in Axes : Touches(s[k], a) => a \in Told(s)
<1> DEFINE T(k) == IF s[k].type = "abs" THEN {s[k].code} ELSE s[k].lost
<1>1. DOMAIN s = 1..Len(s) /\ \A k \in 1..Len(s) : s[k] \in Kinds
  BY LenProperties
<1>2. \A k \in DOMAIN s : T(k) \subseteq Axes
  BY <1>1 DEF Kinds, AxisEvents, SyncEvents
<1>3. \A k \in DOMAIN s, a \in Axes : Touches(s[k], a) => a \in T(k)
  BY DEF Touches
<1>4. Told(s) = UNION {T(k) : k \in DOMAIN s}
  BY DEF Told
<1> HIDE DEF T
<1> QED BY <1>1, <1>2, <1>3, <1>4

LEMMA DroppedFacts ==
    ASSUME SensorTypeOK, NEW packet \in Seq(Kinds), NEW m \in Nat, Len(packet) = m + 1,
           NEW n \in 0..m, QueueSize - 1 = Len(queue) + m - n, NEW all, all = queue \o packet
    PROVE  /\ Told(SubSeq(all, 1, QueueSize - 1)) \subseteq Axes
           /\ \A p \in 1..Len(queue), a \in Axes :
                 Touches(Event(p), a) => a \in Told(SubSeq(all, 1, QueueSize - 1))
           /\ \A k \in 1..(m - n), a \in Axes :
                 Touches(packet[k], a) => a \in Told(SubSeq(all, 1, QueueSize - 1))
<1>1. queue \in Seq(Kinds) /\ Len(queue) \in Nat /\ QueueSize \in Nat
  BY EventFacts, SensorAssumption
<1>2. /\ all \in Seq(Kinds) /\ Len(all) = Len(queue) + (m + 1)
      /\ \A i \in 1..(Len(queue) + (m + 1)) : all[i] =
            IF i <= Len(queue) THEN queue[i] ELSE packet[i - Len(queue)]
  <2>1. /\ all \in Seq(Kinds) /\ Len(all) = Len(queue) + Len(packet)
        /\ \A i \in 1..(Len(queue) + Len(packet)) : all[i] =
              IF i <= Len(queue) THEN queue[i] ELSE packet[i - Len(queue)]
    BY <1>1, ConcatProperties
  <2> QED BY <2>1
<1>3. PICK dropped : dropped = SubSeq(all, 1, QueueSize - 1)
  OBVIOUS
<1>4. /\ dropped \in Seq(Kinds) /\ Len(dropped) = Len(queue) + m - n
      /\ \A i \in 1..(Len(queue) + m - n) : dropped[i] = all[i]
  <2>1. ASSUME NEW s \in Seq(Kinds), NEW j \in Nat, j <= Len(s)
        PROVE  /\ SubSeq(s, 1, j) \in Seq(Kinds) /\ Len(SubSeq(s, 1, j)) = j
               /\ \A i \in 1..j : SubSeq(s, 1, j)[i] = s[i]
    <3>1. \A i \in 1..j : s[i] \in Kinds
      BY <2>1, LenProperties
    <3> QED BY <2>1, <3>1, SubSeqProperties
  <2>2. QueueSize - 1 \in Nat /\ QueueSize - 1 <= Len(all)
    BY <1>1, <1>2
  <2>3. QueueSize - 1 = Len(queue) + m - n /\ all \in Seq(Kinds)
    BY <1>2
  <2>4. PICK j \in Nat : j = QueueSize - 1
    BY <2>2
  <2>5. /\ dropped \in Seq(Kinds) /\ Len(dropped) = j /\ \A i \in 1..j : dropped[i] = all[i]
    BY <1>3, <2>1, <2>2, <2>3, <2>4
  <2> QED BY <2>3, <2>4, <2>5
<1>5. \A p \in 1..Len(queue) : p \in 1..Len(dropped) /\ dropped[p] = Event(p)
  <2> TAKE p \in 1..Len(queue)
  <2>1. p \in 1..(Len(queue) + m - n) /\ p \in 1..(Len(queue) + (m + 1)) /\ p <= Len(queue)
    BY <1>1
  <2> QED BY <1>2, <1>4, <2>1, EventFacts
<1>6. \A k \in 1..(m - n) : Len(queue) + k \in 1..Len(dropped) /\ dropped[Len(queue) + k] = packet[k]
  <2> TAKE k \in 1..(m - n)
  <2>1. /\ Len(queue) + k \in 1..(Len(queue) + m - n)
        /\ Len(queue) + k \in 1..(Len(queue) + (m + 1))
        /\ ~ (Len(queue) + k <= Len(queue)) /\ (Len(queue) + k) - Len(queue) = k
    BY <1>1
  <2> QED BY <1>2, <1>4, <2>1
<1>7. /\ Told(dropped) \subseteq Axes
      /\ \A k \in 1..Len(dropped), a \in Axes : Touches(dropped[k], a) => a \in Told(dropped)
  BY <1>4, ToldFacts
<1> QED BY <1>3, <1>5, <1>6, <1>7

LEMMA ReportKept ==
    ASSUME SInv, report
    PROVE  SInv'
<1> DEFINE Reports(r, packet) ==
             /\ axes' = r
             /\ queue' = IF Len(queue \o packet) < QueueSize THEN queue \o packet
                         ELSE <<[type |-> "syn", read |-> axes,
                                 lost |-> Told(SubSeq(queue \o packet, 1, QueueSize - 1))]>>
                              \o SubSeq(queue \o packet, QueueSize, Len(queue \o packet))
             /\ UNCHANGED <<raw, polling, filled, sample, reading, stale, trusted>>
<1>0. PICK r \in Readings : \E packet \in Packets(r) : Reports(r, packet)
  BY DEF report
<1>1. PICK packet \in Packets(r) : Reports(r, packet)
  BY <1>0
<1>2. SensorTypeOK /\ QueueInv /\ SampleIsReading /\ axes \in Readings
  BY DEF SInv, SensorTypeOK
<1>3. PICK m \in Nat :
        /\ m <= Cardinality(Axes) /\ packet \in Seq(Kinds) /\ Len(packet) = m + 1
        /\ \A k \in 1..m : /\ packet[k] \in AxisEvents
                           /\ packet[k].value = r[packet[k].code]
                           /\ r[packet[k].code] # axes[packet[k].code]
        /\ packet[m + 1] = [type |-> "syn", read |-> r, lost |-> {}]
        /\ \A a \in Axes : r[a] # axes[a] => \E k \in 1..m : Tells(packet[k], a)
  BY <1>2, PacketFacts
<1>4. PICK all : all = queue \o packet
  OBVIOUS
<1>5. /\ queue \in Seq(Kinds) /\ Len(queue) \in Nat /\ QueueSize \in Nat /\ Last \in Nat
      /\ Last = Len(queue) + 1
  BY <1>2, EventFacts, SensorAssumption
<1>6. Len(all) \in Nat
  BY <1>3, <1>4, <1>5, ConcatProperties
<1>7. Now' = [type |-> "syn", read |-> r, lost |-> {}]
  BY <1>1 DEF Now
<1>8. SensorTypeOK /\ queue' \in Seq(Kinds) /\ Len(queue') < QueueSize => SensorTypeOK'
  BY <1>1 DEF SensorTypeOK, Kinds
<1>9. SampleIsReading'
  BY <1>1, <1>2 DEF SampleIsReading
<1>10. CASE Len(all) < QueueSize
  <2>1. queue' = queue \o packet /\ Len(queue') < QueueSize
    BY <1>1, <1>4, <1>10
  <2>2. /\ Last' = Last + m + 1 /\ queue' \in Seq(Kinds)
        /\ \A p \in 1..Len(queue) : Event(p)' = Event(p)
        /\ \A p \in Last..(Last + m) : Event(p)' = packet[p - Last + 1]
        /\ \A p \in {Last + m + 1} : Event(p)' = Now'
    BY <1>2, <1>3, <2>1, FitShape
  <2>3. ASSUME NEW p \in Last..(Last + m - 1)
        PROVE  /\ Event(p)' \in AxisEvents
               /\ Event(p)'.value = r[Event(p)'.code]
               /\ r[Event(p)'.code] # axes[Event(p)'.code]
    <3>1. p \in Last..(Last + m) /\ p - Last + 1 \in 1..m
      BY <1>5
    <3> QED BY <1>3, <2>2, <3>1
  <2>4. ASSUME NEW p \in {Last + m, Last + m + 1}
        PROVE  Event(p)' = [type |-> "syn", read |-> r, lost |-> {}]
    <3>1. CASE p = Last + m
      <4>1. p \in Last..(Last + m) /\ p - Last + 1 = m + 1
        BY <1>5, <3>1
      <4> QED BY <1>3, <2>2, <4>1
    <3>2. CASE p # Last + m
      <4>1. p \in {Last + m + 1}
        BY <3>2
      <4> QED BY <1>7, <2>2, <4>1
    <3> QED BY <3>1, <3>2
  <2>5. ASSUME NEW a \in Axes, r[a] # axes[a]
        PROVE  \E p \in Last..(Last + m - 1) : Tells(Event(p)', a)
    <3>1. PICK k \in 1..m : Tells(packet[k], a)
      BY <1>3, <2>5
    <3>2. PICK p \in Last..(Last + m - 1) : p \in Last..(Last + m) /\ p - Last + 1 = k
      <4>1. /\ Last + k - 1 \in Last..(Last + m - 1) /\ Last + k - 1 \in Last..(Last + m)
            /\ (Last + k - 1) - Last + 1 = k
        BY <1>5
      <4> QED BY <4>1
    <3>3. Event(p)' = packet[k]
      BY <2>2, <3>2
    <3> QED BY <3>1, <3>2, <3>3
  <2>6. QueueInv'
    <3>1. UNCHANGED <<raw, stale>> /\ axes' = r
      BY <1>1
    <3> QED BY <1>2, <2>2, <2>3, <2>4, <2>5, <3>1, FitKept
  <2> QED BY <1>2, <1>8, <1>9, <2>1, <2>2, <2>6 DEF SInv
<1>11. CASE ~ (Len(all) < QueueSize)
  <2>1. PICK lost : lost = Told(SubSeq(all, 1, QueueSize - 1))
    OBVIOUS
  <2>2. PICK first : first = [type |-> "syn", read |-> axes, lost |-> lost]
    OBVIOUS
  <2>3. queue' = <<first>> \o SubSeq(all, QueueSize, Len(all)) /\ Len(all) >= QueueSize
    <3>1. Len(all) >= QueueSize
      BY <1>5, <1>6, <1>11
    <3> QED BY <1>1, <1>4, <1>11, <2>1, <2>2, <3>1
  <2>4. PICK n \in 0..m : QueueSize - 1 = Len(queue) + m - n
    <3>1. Len(all) = Len(queue) + (m + 1)
      <4>1. Len(queue \o packet) = Len(queue) + Len(packet)
        BY <1>3, <1>5, ConcatProperties
      <4> QED BY <1>3, <1>4, <4>1
    <3>2. Len(queue) < QueueSize
      BY <1>2 DEF SensorTypeOK
    <3>3. \A x, z, w \in Nat :
             x < z /\ x + (w + 1) >= z =>
               /\ x + (w + 1) - z \in 0..w
               /\ z - 1 = x + w - (x + (w + 1) - z)
      OBVIOUS
    <3>4. Len(queue) < QueueSize /\ Len(queue) + (m + 1) >= QueueSize
      BY <2>3, <3>1, <3>2
    <3>5. /\ Len(queue) + (m + 1) - QueueSize \in 0..m
          /\ QueueSize - 1 = Len(queue) + m - (Len(queue) + (m + 1) - QueueSize)
      BY <1>5, <3>3, <3>4
    <3> QED BY <3>5
  <2>5. /\ lost \subseteq Axes
        /\ \A p \in 1..Len(queue), a \in Axes : Touches(Event(p), a) => a \in lost
        /\ \A k \in 1..(m - n), a \in Axes : Touches(packet[k], a) => a \in lost
    BY <1>2, <1>3, <1>4, <2>1, <2>4, DroppedFacts
  <2>6. first \in Kinds
    BY <1>2, <2>2, <2>5 DEF Kinds, SyncEvents
  <2>7. PICK left \in 0..m :
          /\ Last' = left + 3 /\ queue' \in Seq(Kinds) /\ Len(queue') < QueueSize
          /\ QueueSize - 1 = Len(queue) + m - left
          /\ Event(1)' = first
          /\ \A p \in 2..(left + 2) : Event(p)' = packet[m - left + p - 1]
          /\ \A p \in {left + 3} : Event(p)' = Now'
    BY <1>2, <1>3, <1>4, <2>3, <2>6, FullShape
  <2>8. left = n
    BY <1>5, <2>4, <2>7
  <2>9. ASSUME NEW p \in 2..(n + 1)
        PROVE  Event(p)' \in AxisEvents /\ Event(p)'.value = r[Event(p)'.code]
    <3>1. p \in 2..(n + 2) /\ m - n + p - 1 \in 1..m
      BY <2>4
    <3> QED BY <1>3, <2>7, <2>8, <3>1
  <2>10. ASSUME NEW p \in {n + 2, n + 3}
         PROVE  Event(p)' = [type |-> "syn", read |-> r, lost |-> {}]
    <3>1. CASE p = n + 2
      <4>1. p \in 2..(n + 2) /\ m - n + p - 1 = m + 1
        BY <2>4, <3>1
      <4> QED BY <1>3, <2>7, <2>8, <4>1
    <3>2. CASE p # n + 2
      <4>1. p \in {n + 3}
        BY <3>2
      <4> QED BY <1>7, <2>7, <2>8, <4>1
    <3> QED BY <3>1, <3>2
  <2>11. ASSUME NEW a \in Axes, r[a] # axes[a]
         PROVE  a \in lost \/ \E p \in 2..(n + 1) : Tells(Event(p)', a)
    <3>1. PICK k \in 1..m : Tells(packet[k], a)
      BY <1>3, <2>11
    <3>2. CASE k \in 1..(m - n)
      BY <2>5, <3>1, <3>2 DEF Tells, Touches
    <3>3. CASE k \notin 1..(m - n)
      <4>1. PICK p \in 2..(n + 1) : p \in 2..(n + 2) /\ m - n + p - 1 = k
        <5>1. /\ k - (m - n) + 1 \in 2..(n + 1) /\ k - (m - n) + 1 \in 2..(n + 2)
              /\ m - n + (k - (m - n) + 1) - 1 = k
          BY <2>4, <3>3
        <5> QED BY <5>1
      <4>2. Event(p)' = packet[k]
        BY <2>7, <2>8, <4>1
      <4> QED BY <3>1, <4>1, <4>2
    <3> QED BY <3>2, <3>3
  <2>12. QueueInv'
    <3>1. UNCHANGED <<raw, stale>> /\ axes' = r /\ lost \in SUBSET Axes /\ n \in Nat
      BY <1>1, <2>4, <2>5
    <3>2. Last' = n + 3 /\ Event(1)' = [type |-> "syn", read |-> axes, lost |-> lost]
      BY <2>2, <2>7, <2>8
    <3> QED BY <1>2, <2>5, <2>9, <2>10, <2>11, <3>1, <3>2, FullKept
  <2> QED BY <1>2, <1>8, <1>9, <2>7, <2>12 DEF SInv
<1> QED BY <1>10, <1>11

\* no event has come and poll has read none: what is not zero is stale
LEMMA SensorInitInv == SensorInit => SInv
<1> SUFFICES ASSUME SensorInit PROVE SInv
  OBVIOUS
<1>1. /\ {axes, raw, sample, reading} \subseteq Readings /\ queue = << >>
      /\ polling = FALSE /\ filled = 0 /\ stale \subseteq Axes /\ trusted = Axes \ stale
      /\ \A a \in Axes \ stale : sample[a] = raw[a] /\ raw[a] = axes[a] /\ reading[a] = axes[a]
  BY SensorAssumption DEF SensorInit, Zero, Readings
<1>2. SensorTypeOK
  <2>1. Count \in Nat \ {0} /\ QueueSize \in Nat /\ QueueSize > Cardinality(Axes) + 2
        /\ Cardinality(Axes) \in Nat
    BY SensorAssumption, FS_CardinalityType
  <2>2. 0 \in 0..(Count - 1) /\ 0 < QueueSize
    BY <2>1
  <2>3. queue \in Seq(AxisEvents \union SyncEvents) /\ Len(queue) = 0
    BY <1>1
  <2> QED BY <1>1, <2>2, <2>3 DEF SensorTypeOK
<1>3. QueueInv
  <2>1. Last = 1 /\ Event(1) = Now
    BY <1>1 DEF Last, Event
  <2> QED BY <1>1, <2>1 DEF QueueInv, Now
<1> QED BY <1>1, <1>2, <1>3 DEF SInv, SampleIsReading

LEMMA SensorStepInv == SInv /\ [SensorNext]_sensorVars => SInv'
<1> SUFFICES ASSUME SInv, [SensorNext]_sensorVars PROVE SInv'
  OBVIOUS
<1>1. ASSUME UNCHANGED <<axes, queue, raw, sample, reading, stale, trusted>>, SensorTypeOK'
      PROVE  SInv'
  <2>1. Last' = Last /\ \A p \in 1..Last : Event(p)' = Event(p)
    BY <1>1 DEF Last, Event, Now
  <2>2. QueueInv'
    <3> SUFFICES ASSUME NEW p \in 1..Last, NEW a \in Axes, Event(p)'.type = "syn"
                 PROVE  /\ \A q \in 1..(p - 1) :
                             Tells(Event(q)', a) /\ (\A k \in (q + 1)..p : ~ Touches(Event(k)', a))
                             => Event(q)'.value = Event(p)'.read[a]
                        /\ (\A k \in 1..p : ~ Touches(Event(k)', a)) /\ a \notin stale'
                           => raw'[a] = Event(p)'.read[a]
      BY <2>1 DEF QueueInv, Tells, Touches
    <3>1. \A k \in 1..p : k \in 1..Last
      BY EventFacts DEF SInv
    <3>2. \A q \in 1..(p - 1) : q \in 1..p /\ (q + 1)..p \subseteq 1..p
      BY EventFacts DEF SInv
    <3>3. \A k \in 1..p : Event(k)' = Event(k)
      BY <2>1, <3>1
    <3>4. p \in 1..p
      BY EventFacts DEF SInv
    <3> QED BY <1>1, <3>2, <3>3, <3>4 DEF SInv, QueueInv
  <2> QED BY <1>1, <2>2 DEF SInv, SampleIsReading
<1>2. CASE UNCHANGED sensorVars
  BY <1>1, <1>2 DEF sensorVars, SInv, SensorTypeOK
<1>3. CASE report
  BY <1>3, ReportKept
<1>4. CASE poll
  <2>1. 0 \in 0..(Count - 1)
    BY SensorAssumption
  <2> QED BY <1>1, <1>4, <2>1 DEF poll, SInv, SensorTypeOK
<1>5. CASE get_axis
  BY <1>5, AxisKept
<1>6. CASE get_sync
  BY <1>6, SyncKept
<1> QED BY <1>2, <1>3, <1>4, <1>5, <1>6 DEF SensorNext

-----------------------------------------------------------------------------
(* What SetReturns rests on, but for the scheduler: a call has a bounded   *)
(* number of accesses to sysfs to make.                                    *)

\* the accesses for the devices from place i of the walk on: one to tell a
\* device and the looks at its status
From(i) == (N + 1 - i) * (Tries + 1)

\* the most accesses a call still makes, beside the reads it may repeat
Left ==
    CASE ppc = "idle" -> 0
      [] ppc = "bl_power" -> 1
      [] ppc = "device" -> 2 + From(index)
      [] ppc = "poll" -> 2 + From(index + 1) + count
MostLeft == IF ppc = "idle" THEN 0 ELSE Left + (MaxReadErrors - errors)

(* A call begins with a number of accesses that depends on the list only,  *)
(* each access makes it smaller, and nothing the kernel, the lights or the *)
(* sensors do meanwhile makes it larger.                                   *)
SetShrinks ==
    [][IF ppc = "idle" THEN MostLeft' \in {0, 2 + N * (Tries + 1) + MaxReadErrors}
       ELSE IF PowerStep THEN MostLeft' \in 0..(MostLeft - 1)
       ELSE MostLeft' = MostLeft]_vars

LEMMA FromFacts ==
    /\ \A i \in 1..(N + 1) : From(i) \in Nat
    /\ \A i \in 1..N : From(i) = From(i + 1) + Tries + 1
    /\ From(1) = N * (Tries + 1)
<1>1. N \in Nat /\ Tries \in Nat
  BY ListFacts, PowerAssumption
<1>2. ASSUME NEW i \in 1..(N + 1) PROVE From(i) \in Nat
  <2>1. N + 1 - i \in Nat /\ Tries + 1 \in Nat
    BY <1>1, <1>2
  <2>2. \A a, b \in Nat : a * b \in Nat
    OBVIOUS
  <2> QED BY <2>1, <2>2 DEF From
<1>3. ASSUME NEW i \in 1..N PROVE From(i) = From(i + 1) + Tries + 1
  <2>1. \A a, b \in Nat : (a + 1) * b = a * b + b
    OBVIOUS
  <2>2. N - i \in Nat /\ Tries + 1 \in Nat /\ N + 1 - i = (N - i) + 1 /\ N + 1 - (i + 1) = N - i
    BY <1>1, <1>3
  <2>3. (N - i) * (Tries + 1) \in Nat
    <3>1. \A a, b \in Nat : a * b \in Nat
      OBVIOUS
    <3> QED BY <2>2, <3>1
  <2>4. From(i) = (N - i) * (Tries + 1) + (Tries + 1)
    BY <2>1, <2>2 DEF From
  <2>5. From(i + 1) = (N - i) * (Tries + 1)
    BY <2>2 DEF From
  <2> QED BY <1>1, <2>3, <2>4, <2>5
<1>4. From(1) = N * (Tries + 1)
  <2>1. N + 1 - 1 = N
    BY <1>1
  <2> QED BY <2>1 DEF From
<1> QED BY <1>2, <1>3, <1>4

\* either part of MostLeft that shrinks makes it smaller
LEMMA PartShrinks ==
    ASSUME NEW l \in Nat, NEW m \in Nat, NEW most \in Nat, NEW e \in Nat, NEW f \in Nat,
           most - f \in Nat, (m < l /\ f = e) \/ (m = l /\ f > e)
    PROVE  m + (most - f) \in Nat /\ m + (most - f) < l + (most - e)
  OBVIOUS

LEMMA LeftFacts ==
    PInv => /\ Left \in Nat /\ errors \in Nat /\ MaxReadErrors - errors \in Nat
            /\ ppc # "idle" => Left > 0
<1> SUFFICES ASSUME PInv
             PROVE  /\ Left \in Nat /\ errors \in Nat /\ MaxReadErrors - errors \in Nat
                    /\ ppc # "idle" => Left > 0
  OBVIOUS
<1>1. /\ N \in Nat /\ Tries \in Nat /\ MaxReadErrors \in Nat
      /\ index \in Nat /\ count \in Nat /\ errors \in 0..MaxReadErrors
      /\ ppc \in {"idle", "bl_power", "device", "poll"}
  BY ListFacts, PowerAssumption DEF PInv, PowerTypeOK
<1>2. CASE ppc = "device"
  <2>1. From(index) \in Nat
    BY <1>2, FromFacts DEF PInv, PlaceInv
  <2> QED BY <1>1, <1>2, <2>1 DEF Left
<1>3. CASE ppc = "poll"
  <2>1. From(index + 1) \in Nat
    BY <1>1, <1>3, FromFacts DEF PInv, PlaceInv, Positions
  <2> QED BY <1>1, <1>3, <2>1 DEF Left
<1>4. CASE ppc \in {"idle", "bl_power"}
  BY <1>1, <1>4 DEF Left
<1> QED BY <1>1, <1>2, <1>3, <1>4

\* going on to the next device costs what was left for this one
LEMMA NextShrinks ==
    ASSUME PInv, PInv', ppc \in {"device", "poll"}, index \in Positions, NextNode
    PROVE  Left' < Left
<1>1. /\ N \in Nat /\ Tries \in Nat /\ index \in 1..N /\ index + 1 \in 1..(N + 1)
      /\ index' = index + 1 /\ ppc' = "device"
  BY ListFacts, PowerAssumption DEF Positions, NextNode
<1>2. Left' = 2 + From(index + 1) /\ From(index + 1) \in Nat
  BY <1>1, FromFacts DEF Left, From
<1>3. CASE ppc = "device"
  BY <1>1, <1>2, <1>3, FromFacts DEF Left
<1>4. CASE ppc = "poll"
  <2>1. count \in Nat \ {0}
    BY <1>4, PowerAssumption DEF PInv, PlaceInv, PowerTypeOK
  <2>2. Left = 2 + From(index + 1) + count
    BY <1>4 DEF Left
  <2> QED BY <1>2, <2>1, <2>2
<1> QED BY <1>3, <1>4

LEMMA StepShrinks ==
    ASSUME PInv, PInv', PowerStep
    PROVE  /\ ppc # "idle"
           /\ \/ Left' < Left /\ errors' = errors
              \/ Left' = Left /\ errors' > errors /\ ppc' # "idle"
<1>0. /\ N \in Nat /\ Tries \in Nat \ {0} /\ DOMAIN Devices = Positions
      /\ ppc \in {"device", "poll"} => index \in 1..(N + 1)
      /\ ppc = "poll" => index \in Positions /\ count \in 1..Tries
      /\ errors \in Nat
  BY ListFacts, PowerAssumption, LeftFacts DEF PInv, PlaceInv, PowerTypeOK
<1>1. CASE device_skipped \/ status_reached
  <2>1. ppc \in {"device", "poll"} /\ index \in Positions /\ NextNode /\ errors' = errors
    BY <1>0, <1>1 DEF device_skipped, status_reached
  <2> QED BY <2>1, NextShrinks
<1>2. CASE pm_set_for_device
  <2>1. /\ ppc = "device" /\ index \in 1..N /\ ppc' = "poll" /\ count' = Tries
        /\ index' = index /\ errors' = errors
    BY <1>0, <1>2 DEF pm_set_for_device, Positions
  <2>2. Left = 2 + From(index) /\ Left' = 2 + From(index + 1) + Tries
    BY <2>1 DEF Left, From
  <2>3. index + 1 \in 1..(N + 1)
    BY <1>0, <2>1
  <2> QED BY <1>0, <2>1, <2>2, <2>3, FromFacts
<1>3. CASE status_awaited
  <2>1. ppc = "poll" /\ count' = count - 1 /\ errors' = errors
    BY <1>3 DEF status_awaited
  <2>2. CASE count > 1
    <3>1. ppc' = "poll" /\ index' = index
      BY <1>3, <2>1, <2>2 DEF status_awaited
    <3>2. Left = 2 + From(index + 1) + count /\ Left' = 2 + From(index + 1) + (count - 1)
      BY <2>1, <3>1 DEF Left, From
    <3>3. index + 1 \in 1..(N + 1)
      BY <1>0, <2>1 DEF Positions
    <3> QED BY <1>0, <2>1, <3>2, <3>3, FromFacts
  <2>3. CASE ~ (count > 1)
    BY <1>0, <1>3, <2>1, <2>3, NextShrinks DEF status_awaited
  <2> QED BY <2>2, <2>3
<1>4. CASE status_error
  <2>1. ppc = "poll" /\ count' = count
    BY <1>4 DEF status_error
  <2>2. CASE NextNode /\ UNCHANGED errors
    BY <1>0, <2>1, <2>2, NextShrinks
  <2>3. CASE errors' = errors + 1 /\ UNCHANGED <<ppc, index>>
    <3>1. Left' = Left
      BY <2>1, <2>3 DEF Left, From
    <3> QED BY <1>0, <2>1, <2>3, <3>1
  <2> QED BY <1>4, <2>2, <2>3 DEF status_error
<1>5. CASE set_sleep
  <2>1. ppc = "device" /\ ppc' = "bl_power" /\ errors' = errors
    BY <1>5 DEF set_sleep
  <2>2. Left = 2 + From(index) /\ Left' = 1 /\ From(index) \in Nat
    BY <1>0, <2>1, FromFacts DEF Left
  <2> QED BY <2>1, <2>2
<1>6. CASE set_bl_power
  <2>1. ppc = "bl_power" /\ ppc' = "idle" /\ errors' = errors
    BY <1>6 DEF set_bl_power
  <2>2. Left = 1 /\ Left' = 0
    BY <2>1 DEF Left
  <2> QED BY <2>1, <2>2
<1> QED BY <1>1, <1>2, <1>3, <1>4, <1>5, <1>6 DEF PowerStep, PowerGoes

LEMMA BeginsWithAll ==
    ASSUME PInv, NEW b \in BOOLEAN, power_set_interactive(b)
    PROVE  MostLeft' = 2 + N * (Tries + 1) + MaxReadErrors
<1>1. ppc' = "device" /\ index' = 1 /\ errors' = 0 /\ MaxReadErrors \in Nat
  BY PowerAssumption DEF power_set_interactive
<1>2. Left' = 2 + N * (Tries + 1)
  BY <1>1, FromFacts DEF Left, From
<1>3. MostLeft' = Left' + (MaxReadErrors - 0)
  BY <1>1 DEF MostLeft
<1>4. MaxReadErrors - 0 = MaxReadErrors
  BY <1>1
<1> QED BY <1>2, <1>3, <1>4

-----------------------------------------------------------------------------
(* The system *)

IInv == PInv /\ LInv /\ SInv

LEMMA AlwaysInv == Spec => []IInv
<1>1. Init => IInv
  <2>1. LightInit => LInv
    BY DEF LightInit, LInv, LightTypeOK, LightInv
  <2> QED BY <2>1, PowerInitInv, SensorInitInv DEF Init, IInv
<1>2. IInv /\ [Next]_vars => IInv'
  <2>1. [Next]_vars => [PowerNext]_powerVars /\ [LightNext]_lightVars
                     /\ [SensorNext]_sensorVars
    BY DEF Next, vars
  <2> QED BY <2>1, PowerStepInv, LightStepInv, SensorStepInv DEF IInv
<1> QED BY <1>1, <1>2, PTL DEF Spec

(* The three HALs keep the types of their state, for any list of devices,  *)
(* any colours, any axes and values and any faults: the walk stays in the  *)
(* list, the tries are bounded, no level is above the highest, and the     *)
(* kernel's queue of input events never gets longer than it is.            *)
THEOREM SystemTypes == Spec => []TypeOK
<1>1. IInv => TypeOK
  BY DEF IInv, PInv, LInv, SInv, TypeOK
<1> QED BY <1>1, AlwaysInv, PTL

(* Each sample is what the accelerometer had read, axis by axis, save of   *)
(* an axis whose last event the kernel dropped, or which has not changed   *)
(* since open_sensors and was not zero then: however readings, polls and a *)
(* full queue interleave, for any values the kernel has at the open, any   *)
(* size of the queue that holds a reading, and any array of samples.       *)
THEOREM SampleTheorem == Spec => []SampleIsReading
<1>1. IInv => SampleIsReading
  BY DEF IInv, SInv
<1> QED BY <1>1, AlwaysInv, PTL

(* A device may suspend only if those before it in powerhal.conf may, at   *)
(* any moment of a suspend, a resume or between them.                      *)
THEOREM OrderTheorem == Spec => []SuspendOrder
<1>1. IInv => SuspendOrder
  <2>1. SUFFICES ASSUME PInv, NEW j \in Positions, NEW k \in Positions, j < k,
                        Devices[j] \in Obeying, Devices[k] \in Obeying,
                        control[Devices[k]] = "auto"
                 PROVE  control[Devices[j]] = "auto"
    BY ListFacts DEF SuspendOrder, IInv
  <2>2. PICK before \in {"on", "auto"} : \A i \in Positions :
          Devices[i] \in Obeying => control[Devices[i]] = IF Handled(i) THEN Wanted ELSE before
    BY <2>1 DEF PInv, WalkInv
  <2>3. on \in BOOLEAN /\ index \in Nat /\ j \in Nat /\ k \in Nat /\ N \in Nat
    BY <2>1, PowerFacts, ListFacts DEF PInv, Positions
  <2>4. CASE on
    <3>1. Handled(j) => Handled(k)
      BY <2>1, <2>3, <2>4 DEF Handled, Past, Turn
    <3> QED BY <2>1, <2>2, <2>4, <3>1 DEF Wanted
  <2>5. CASE ~ on
    <3>1. Handled(k) => Handled(j)
      BY <2>1, <2>3, <2>5 DEF Handled, Past, Turn
    <3> QED BY <2>1, <2>2, <2>5, <3>1 DEF Wanted
  <2> QED BY <2>4, <2>5
<1> QED BY <1>1, AlwaysInv, PTL

(* After setInteractive(1) every device that was told and did not run out  *)
(* of tries is active.                                                     *)
THEOREM ResumeTheorem == Spec => []ResumedActive
<1>1. IInv => ResumedActive
  <2> SUFFICES ASSUME PInv, ppc = "idle", on, NEW d \in Obeying \ gaveUp
               PROVE  status[d] = "active"
    BY DEF ResumedActive, IInv
  <2>1. PICK k \in Positions : Devices[k] = d
    BY ListFacts, PowerAssumption DEF Obeying
  <2> QED BY <2>1 DEF PInv, ActiveInv, Past
<1> QED BY <1>1, AlwaysInv, PTL

(* Between calls the panel follows what the power manager and the lights   *)
(* service asked for last, unless one of the files could not be written.   *)
THEOREM ScreenTheorem == Spec => []ScreenFollows
<1>1. IInv => ScreenFollows
  <2> SUFFICES ASSUME PInv, LInv, ppc = "idle", lpc = "idle", "brightness" \notin unwritten
               PROVE  /\ missed \intersect {"sleep", "bl_power"} = {} => (Lit <=> on /\ level > 0)
                      /\ Lit /\ "monochrome" \notin unwritten => monochrome = 0
    BY DEF ScreenFollows, IInv
  <2>1. brightness = level
    BY DEF LInv, LightInv
  <2>2. missed \intersect {"sleep", "bl_power"} = {} =>
          sleep = (IF on THEN 0 ELSE 1) /\ bl_power = (IF on THEN 0 ELSE 1)
    BY DEF PInv, PanelInv
  <2>3. "monochrome" \notin unwritten => monochrome = IF level > 0 THEN 0 ELSE 1
    BY DEF LInv, LightInv
  <2> QED BY <2>1, <2>2, <2>3 DEF Lit
<1> QED BY <1>1, AlwaysInv, PTL

(* setInteractive makes at most one access per device and look, two to the *)
(* panel and the reads it repeats, whatever the kernel does with the       *)
(* devices: for any list and any number of tries. SetReturns adds that the *)
(* call is scheduled.                                                      *)
THEOREM SetShrinksTheorem == Spec => SetShrinks
<1>1. ASSUME IInv, IInv', [Next]_vars
      PROVE  \/ UNCHANGED vars
             \/ IF ppc = "idle" THEN MostLeft' \in {0, 2 + N * (Tries + 1) + MaxReadErrors}
                ELSE IF PowerStep THEN MostLeft' \in 0..(MostLeft - 1)
                ELSE MostLeft' = MostLeft
  <2>1. PInv /\ PInv' /\ [PowerNext]_powerVars
    BY <1>1 DEF IInv, Next, vars
  <2>2. CASE PowerStep
    <3>1. ppc # "idle" /\ MostLeft = Left + (MaxReadErrors - errors)
      BY <2>1, <2>2, StepShrinks DEF MostLeft
    <3>2. /\ Left \in Nat /\ MaxReadErrors - errors \in Nat /\ errors \in Nat
          /\ MaxReadErrors \in Nat
      BY <2>1, LeftFacts, PowerAssumption
    <3>3. /\ Left' \in Nat /\ MaxReadErrors - errors' \in Nat /\ errors' \in Nat
      <4>1. PInv' => (/\ Left \in Nat /\ errors \in Nat /\ MaxReadErrors - errors \in Nat
                      /\ ppc # "idle" => Left > 0)'
        BY LeftFacts, PTL
      <4> QED BY <2>1, <4>1
    <3>4. MostLeft \in Nat /\ Left <= MostLeft
      BY <3>1, <3>2
    <3>5. MostLeft' \in Nat /\ MostLeft' < MostLeft
      <4>1. CASE ppc' = "idle"
        <5>1. MostLeft' = 0 /\ Left > 0
          BY <2>1, <3>1, <4>1, LeftFacts DEF MostLeft
        <5> QED BY <3>2, <3>4, <5>1
      <4>2. CASE ppc' # "idle"
        <5>1. MostLeft' = Left' + (MaxReadErrors - errors')
          BY <4>2 DEF MostLeft
        <5>2. (Left' < Left /\ errors' = errors) \/ (Left' = Left /\ errors' > errors)
          BY <2>1, <2>2, StepShrinks
        <5>3. /\ Left' + (MaxReadErrors - errors') \in Nat
              /\ Left' + (MaxReadErrors - errors') < Left + (MaxReadErrors - errors)
          BY <3>2, <3>3, <5>2, PartShrinks
        <5> QED BY <3>1, <5>1, <5>3
      <4> QED BY <4>1, <4>2
    <3>6. MostLeft' \in 0..(MostLeft - 1)
      BY <3>4, <3>5
    <3> QED BY <2>2, <3>1, <3>6
  <2>3. CASE \E b \in BOOLEAN : power_set_interactive(b)
    <3>1. ppc = "idle"
      BY <2>3 DEF power_set_interactive
    <3> QED BY <2>1, <2>3, <3>1, BeginsWithAll
  <2>4. CASE (\E d \in DeviceSet : runtime_pm(d)) \/ UNCHANGED powerVars
    <3>1. UNCHANGED <<ppc, index, count, errors>>
      BY <2>4 DEF runtime_pm, powerVars
    <3>2. MostLeft' = MostLeft /\ (ppc = "idle" => MostLeft' = 0)
      BY <3>1 DEF MostLeft, Left, From
    <3> QED BY <2>2, <3>2
  <2> QED BY <2>1, <2>2, <2>3, <2>4 DEF PowerNext
<1>2. IInv /\ IInv' /\ [Next]_vars
        => [IF ppc = "idle" THEN MostLeft' \in {0, 2 + N * (Tries + 1) + MaxReadErrors}
            ELSE IF PowerStep THEN MostLeft' \in 0..(MostLeft - 1)
            ELSE MostLeft' = MostLeft]_vars
  BY <1>1
<1> QED BY <1>2, AlwaysInv, PTL DEF Spec, SetShrinks
=============================================================================
