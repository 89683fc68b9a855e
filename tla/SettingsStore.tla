---------------------------- MODULE SettingsStore ----------------------------
(***************************************************************************)
(* The format of settings.json (src/storage/settings_store.cpp): what      *)
(* Serialize writes, what is left when the write is cut short, and what    *)
(* LoadOrCreate makes of a file.  A file is what follows each field's      *)
(* name: a value, nothing at all (Absent), or text that is no number       *)
(* (Garbled).                                                              *)
(***************************************************************************)
EXTENDS Integers

CONSTANTS Absent, Garbled, Null   \* model values

ASSUME SettingsAssumption ==
  /\ \A mark \in {Absent, Garbled, Null} : mark \notin Int
  /\ Garbled # Null

VersionField   == 1
FlushField     == 2
RepeatField    == 3
RetentionField == 4
Fields == 1 .. 4   \* in the order Serialize writes them

\* Serialize of the AppSettings a new file is created with.
Defaults == <<1, 30, FALSE, Null>>

\* What a field cut short reads as: no name or no colon, no value, a number with
\* a digit less; "fals" falls back to false, as Absent does.
CutShort(f, value) ==
  CASE f = FlushField     -> {Absent, Garbled, value \div 10}
    [] f = RepeatField    -> {Absent}
    [] OTHER              -> {Absent, Garbled}

\* The truncated files: the fields before f are whole, those after it absent.
Truncations(file) ==
  UNION {{[g \in Fields |-> IF g < f THEN file[g] ELSE IF g = f THEN rest ELSE Absent] :
            rest \in CutShort(f, file[f])} : f \in Fields}

\* ParseIntField finds a value; stoi throws on Garbled, for which see Loads.
Given(value) == value \notin {Absent, Null}

\* AppSettings as LoadOrCreate fills them.  ParseBoolField takes anything but
\* true and false for the fallback.
Parsed(file) ==
  [version |-> IF Given(file[VersionField]) THEN file[VersionField] ELSE 1,
   flush_interval_seconds |-> IF Given(file[FlushField]) THEN file[FlushField] ELSE 30,
   count_key_repeat |-> file[RepeatField] \notin {Absent, Garbled} /\ file[RepeatField],
   retention_days |-> IF Given(file[RetentionField]) THEN file[RetentionField] ELSE Null]

\* Mutant: a retention without limit is refused.
ValidIfLimited(s) ==
  /\ s.version = 1
  /\ s.flush_interval_seconds \in 5 .. 300
  /\ s.retention_days # Null

\* AppSettings::Validate.
Valid(s) ==
  /\ s.version = 1
  /\ s.flush_interval_seconds \in 5 .. 300
  /\ s.retention_days = Null \/ s.retention_days > 0

\* LoadOrCreate reads the file without an exception.
Loads(file) ==
  /\ \A f \in {VersionField, FlushField, RetentionField} : file[f] # Garbled
  /\ Valid(Parsed(file))
=============================================================================
