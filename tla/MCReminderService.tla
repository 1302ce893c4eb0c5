------------------------- MODULE MCReminderService -------------------------
(***************************************************************************)
(* Reminders in three settings, checked in one run: "busy", of the cfg's   *)
(* constants, with a plan under way; "told" by ticks that overlap and may  *)
(* last as long as the cooldown, here Brief; "quiet", which the user and   *)
(* plans leave alone once it matters.                                      *)
(***************************************************************************)
EXTENDS ReminderService

CONSTANTS Both, Brief, QuietFires

VARIABLE setting

Overlapping == INSTANCE ReminderService
                  WITH Plans <- {}, PlanTicks <- 0, Cooldown <- Brief, Tickers <- Both
Quiet == INSTANCE ReminderService WITH Plans <- {}, MaxFires <- QuietFires

ASSUME BoundsAssumption == Bounds /\ Overlapping!Bounds /\ Quiet!Bounds

SettingsInit ==
    \/ setting = "busy" /\ Init
    \/ setting = "told" /\ Overlapping!Init
    \/ setting = "quiet" /\ Quiet!Init

BusyNext == setting = "busy" /\ Next /\ UNCHANGED setting
OverlappingNext == setting = "told" /\ Overlapping!Next /\ UNCHANGED setting
QuietNext == setting = "quiet" /\ Quiet!Next /\ UNCHANGED setting

SettingsNext == BusyNext \/ OverlappingNext \/ QuietNext

SettingsSpec == /\ SettingsInit /\ [][SettingsNext]_<<setting, vars>>
                /\ setting = "quiet" => Quiet!Fairness /\ Quiet!LeftAlone

(* Where the user and plans leave the scheduler alone, every reminder that  *)
(* is due is dispatched until it has caught up with its schedule (tick).    *)
QuietRemindersFire == setting = "quiet" => EveryReminderFires
=============================================================================
