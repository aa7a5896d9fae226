----------------------------- MODULE ClickGeometry -----------------------------
(* Where a click lands: along one axis, from the rectangle of an element on the
   desktop to the bounds the model daemon is given (capture_accessibility_snapshot
   in src/ale-gui/src/platform/desktop.rs), the point that the grounding model picks
   in them (src/ale-modeld/src/llama.rs), the pixel of the picture and the desktop
   coordinate (map_point in src/ale-gui/src/screen_capture.rs), and the 16 bits that
   Windows is sent (src/ale-gui/src/automation.rs).  Numbers are fractions over one
   denominator, so nothing is rounded that the code does not round. *)
EXTENDS Integers

CONSTANTS
    Spans,      \* widths of the monitor, in pixels
    Images,     \* widths of the picture
    Before,     \* virtual desktop to the left of the monitor
    Parts       \* a point is at k / Parts of the element's bounds

\* The 16 bits that Windows is sent name every pixel of its desktop.
ASSUME GeometryAssumption ==
    /\ Spans \subseteq Nat \ {0} /\ Images \subseteq Nat \ {0} /\ Before \subseteq Nat
    /\ Parts \in Nat \ {0}
    /\ \A span \in Spans, before \in Before : before + span <= 65536

VARIABLE aim    \* one input: [span, image, before, left, width, share]

GeometryInit ==
    \E span \in Spans, image \in Images, before \in Before, at \in 0..Parts :
    \E left \in -2..(span + 1), width \in 1..4 :
        aim = [span |-> span, image |-> image, before |-> before, share |-> at,
               left |-> left, width |-> width]

Clamp(v, low, high) == IF v < low THEN low ELSE IF v > high THEN high ELSE v

\* The bounds of the node, in parts of the monitor: the ends are clamped.
BoundsLeft == Clamp(aim.left, 0, aim.span)
BoundsRight == Clamp(aim.left + aim.width, 0, aim.span)

\* is_normalized: what is not on the monitor is no candidate.
IsNormalized == BoundsRight > BoundsLeft

\* The relative point of the model, in the bounds: over Parts * span.
Picked == BoundsLeft * (Parts - aim.share) + BoundsRight * aim.share
Scale == Parts * aim.span

\* The pixel of the picture is click_x * (image_width - 1); map_point divides by the
\* same number again, so a picture of one pixel is its origin: over Scale.
MapPoint == IF aim.image = 1 THEN 0 ELSE Picked * (aim.span - 1)

\* normalize_virtual_desktop_point: over the whole virtual desktop, to 0..65535.
Extent == aim.before + aim.span
Rounded(v, d) == (2 * v + d) \div (2 * d)
NormalizePoint ==
    IF Extent = 1 THEN 0
    ELSE Rounded((MapPoint + aim.before * Scale) * 65535, Scale * (Extent - 1))

\* What the system makes of it.
Landed == (NormalizePoint * Extent) \div 65536 - aim.before

\* A grounded click is on the monitor, in the element or less than a pixel before
\* it, and the system moves the pointer to the pixel it is in or to one beside it.
ClicksLandOnElement ==
    IsNormalized /\ aim.image > 1 =>
        /\ 0 <= MapPoint /\ MapPoint <= (aim.span - 1) * Scale
        /\ (aim.left - 1) * Scale < MapPoint
        /\ MapPoint <= (aim.left + aim.width) * Scale
        /\ (Landed - 1) * Scale <= MapPoint /\ MapPoint < (Landed + 2) * Scale
================================================================================
