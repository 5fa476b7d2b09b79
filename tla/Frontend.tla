------------------------------ MODULE Frontend ------------------------------
(***************************************************************************)
(* The parts of the frontend that decide something from several reads of a *)
(* moving book, each composed with it: the clearance check, the collision  *)
(* demonstration, the coverage measurement and the challenge console. They *)
(* share nothing but the chain, so a behaviour follows one of them, chosen *)
(* at the start; the transactions of the others are among Next's.          *)
(***************************************************************************)
EXTENDS Clearance, Collision, Coverage, Console

VARIABLE visitor        \* the part this behaviour follows

Parts == {"clearance", "collision", "coverage", "console"}

surfaces == <<check, collisionVars, measure, console>>

frontendVars == <<vars, boundAt, surfaces, visitor>>

SurfacesInit == ClearanceInit /\ CollisionInit /\ CoverageInit /\ ConsoleInit

FrontendInit ==
    /\ Init
    /\ boundAt = [a \in Addresses |-> 0]
    /\ SurfacesInit
    /\ visitor \in Parts

\* Anyone's transaction, and the blocks.
World ==
    /\ Next
    /\ Recorded
    /\ UNCHANGED <<surfaces, visitor>>

CheckClearance ==
    /\ visitor = "clearance"
    /\ ClearanceNext
    /\ UNCHANGED <<vars, boundAt, collisionVars, measure, console, visitor>>

Collide ==
    /\ visitor = "collision"
    /\ Serve
    /\ UNCHANGED <<vars, boundAt, check, measure, console, visitor>>

Include ==
    /\ \E tx \in mempool : Mined(tx)
    /\ Recorded
    /\ UNCHANGED <<check, measure, console, visitor>>

MeasureCoverage ==
    /\ visitor = "coverage"
    /\ CoverageNext
    /\ UNCHANGED <<vars, boundAt, check, collisionVars, console, visitor>>

UseConsole ==
    /\ visitor = "console"
    /\ ConsoleNext
    /\ Recorded
    /\ UNCHANGED <<check, collisionVars, measure, visitor>>

FrontendNext == World \/ CheckClearance \/ Collide \/ Include \/ MeasureCoverage \/ UseConsole

FrontendSpec == FrontendInit /\ [][FrontendNext]_frontendVars
=============================================================================
