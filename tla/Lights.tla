------------------------------- MODULE Lights -------------------------------
(***************************************************************************)
(* The lights HAL (liblight/lights.c): a brightness request is turned into *)
(* a monochrome mode and a level of the display's controller, written one  *)
(* after the other, each under g_lock.  The lights service makes one       *)
(* request at a time.                                                      *)
(***************************************************************************)
EXTENDS Naturals

CONSTANTS
    Colors,         \* colours of light_state_t: <<red, green, blue>>
    LightFaults     \* files that may fail: of {"monochrome", "brightness"}

ASSUME LightAssumption ==
    /\ Colors \subseteq (0..255) \X (0..255) \X (0..255)
    /\ LightFaults \subseteq {"monochrome", "brightness"}

VARIABLES
    lpc,                    \* where set_light_backlight is
    level,                  \* its local brightness; between calls, the last one
    monochrome, brightness, \* the two files
    unwritten               \* history: those whose last write failed

lightVars == <<lpc, level, monochrome, brightness, unwritten>>

LightTypeOK ==
    /\ lpc \in {"idle", "monochrome", "brightness"}
    /\ level \in 0..15 /\ brightness \in 0..15
    /\ monochrome \in {0, 1}
    /\ unwritten \subseteq {"monochrome", "brightness"}

LightInit == lpc = "idle" /\ level = 0 /\ monochrome = 1 /\ brightness = 0 /\ unwritten = {}

rgb_to_brightness(color) == (77 * color[1] + 150 * color[2] + 29 * color[3]) \div 256

\* Mutant: sixteen levels and one more
to_xo4_brightness_rounded(org_brightness) == (org_brightness + 8) \div 16

to_xo4_brightness(org_brightness) == org_brightness \div 16

set_light_backlight(color) ==
    /\ lpc = "idle"
    /\ level' = to_xo4_brightness(rgb_to_brightness(color))
    /\ lpc' = "monochrome"
    /\ UNCHANGED <<monochrome, brightness, unwritten>>

\* Mutant: the mode follows the level the display has
set_xo4_monochrome_stale ==
    /\ lpc = "monochrome" /\ lpc' = "brightness"
    /\ monochrome' = IF brightness > 0 THEN 0 ELSE 1
    /\ UNCHANGED <<level, brightness, unwritten>>

\* the result is not looked at
set_xo4_monochrome ==
    /\ lpc = "monochrome" /\ lpc' = "brightness"
    /\ \/ /\ monochrome' = IF level > 0 THEN 0 ELSE 1
          /\ unwritten' = unwritten \ {"monochrome"}
       \/ /\ "monochrome" \in LightFaults /\ UNCHANGED monochrome
          /\ unwritten' = unwritten \union {"monochrome"}
    /\ UNCHANGED <<level, brightness>>

write_brightness ==
    /\ lpc = "brightness" /\ lpc' = "idle"
    /\ \/ brightness' = level /\ unwritten' = unwritten \ {"brightness"}
       \/ /\ "brightness" \in LightFaults /\ UNCHANGED brightness
          /\ unwritten' = unwritten \union {"brightness"}
    /\ UNCHANGED <<level, monochrome>>

LightStep == set_xo4_monochrome \/ write_brightness
LightNext == (\E c \in Colors : set_light_backlight(c)) \/ LightStep
=============================================================================
