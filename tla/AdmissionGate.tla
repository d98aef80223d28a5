--------------------------- MODULE AdmissionGate ---------------------------
(***************************************************************************)
(* overload.AdmissionGate: the five overload levels, their periodic        *)
(* evaluation against the watermarks (fast up, slow down), and the table   *)
(* that decides what happens to a message at a level.                      *)
(*                                                                         *)
(* The backlog is an argument, because the counter belongs to the Hub;     *)
(* evaluateLoop reads it, and the level, before it acts on them.           *)
(***************************************************************************)
EXTENDS Integers

CONSTANTS
    HighArg, LowArg,         \* arguments of NewAdmissionGate
    DefaultHigh, DefaultLow, \* constants.DefaultAdmission{High,Low}Watermark
    Cooldown                 \* constants.DefaultAdmissionCooldownLevels

ASSUME GateAssumption ==
    /\ HighArg \in Int /\ LowArg \in Int
    /\ DefaultHigh \in Nat /\ DefaultLow \in Nat /\ DefaultLow < DefaultHigh
    /\ Cooldown \in Nat \ {0}

VARIABLES
    level,     \* current OverloadLevel
    streak,    \* lowStreak; counted no further than Cooldown, the only value compared
    evalPC,    \* "wait" for the ticker, or "act" on what was read
    seen       \* [backlog, level] as evaluateLoop read them

gateVars == <<level, streak, evalPC, seen>>

LevelNormal == 0
LevelReadOnly == 4
Levels == LevelNormal .. LevelReadOnly

GateTypeOK ==
    /\ level \in Levels
    /\ streak \in 0 .. Cooldown
    /\ evalPC \in {"wait", "act"}
    /\ seen \in [backlog : Nat, level : Levels]

(* NewAdmissionGate: what the watermarks become. *)
HighWatermark == IF HighArg <= 0 THEN DefaultHigh ELSE HighArg

\* The quarter taken whether or not it is needed.
LowWatermark_AlwaysQuarter == HighWatermark \div 4

LowWatermark ==
    LET asked == IF LowArg <= 0 THEN DefaultLow ELSE LowArg
    IN  IF asked >= HighWatermark THEN HighWatermark \div 4 ELSE asked

NoReading == [backlog |-> 0, level |-> LevelNormal]

GateInit ==
    /\ level = LevelNormal
    /\ streak = 0
    /\ evalPC = "wait"
    /\ seen = NoReading

(* Backlog() clips a counter that is below zero for a moment. *)
Backlog(counter) == IF counter < 0 THEN 0 ELSE counter

EvalRead(counter) ==
    /\ evalPC = "wait"
    /\ seen' = [backlog |-> Backlog(counter), level |-> level]
    /\ evalPC' = "act"
    /\ UNCHANGED <<level, streak>>

Raise ==
    /\ seen.backlog > HighWatermark
    /\ level' = IF seen.level < LevelReadOnly THEN seen.level + 1 ELSE level
    /\ streak' = 0

\* The last level is never left.
Lower_StopsAtOne ==
    /\ seen.backlog <= HighWatermark
    /\ seen.backlog < LowWatermark
    /\ IF streak + 1 >= Cooldown /\ seen.level > LevelNormal + 1
       THEN level' = seen.level - 1 /\ streak' = 0
       ELSE /\ streak' = IF streak < Cooldown THEN streak + 1 ELSE streak
            /\ UNCHANGED level

Lower ==
    /\ seen.backlog <= HighWatermark
    /\ seen.backlog < LowWatermark
    /\ IF streak + 1 >= Cooldown /\ seen.level > LevelNormal
       THEN level' = seen.level - 1 /\ streak' = 0
       ELSE /\ streak' = IF streak < Cooldown THEN streak + 1 ELSE streak
            /\ UNCHANGED level

Hold ==
    /\ seen.backlog <= HighWatermark
    /\ seen.backlog >= LowWatermark
    /\ streak' = 0
    /\ UNCHANGED level

EvalAct ==
    /\ evalPC = "act"
    /\ Raise \/ Lower \/ Hold
    /\ evalPC' = "wait"
    /\ seen' = NoReading

(* Admit: the verdict for a message of a delivery guarantee at a level. *)
Guarantees == {"Standard", "Ephemeral", "Guaranteed"}

Admit(guarantee, l) ==
    CASE guarantee \in {"Guaranteed", "Ephemeral"} -> "admit"
      [] guarantee = "Standard" /\ l = 0 -> "admit"
      [] guarantee = "Standard" /\ l = 1 -> "delay"
      [] guarantee = "Standard" /\ l > 1 -> "offline"
=============================================================================
