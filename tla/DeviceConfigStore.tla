-------------------------- MODULE DeviceConfigStore -------------------------
(***************************************************************************)
(* DeviceConfigStore of slimhub/config.py: one file per address with the   *)
(* type, the name and the location of a device.  Only the daemon uses it,  *)
(* and no operation suspends; but a save truncates the file first, so that *)
(* one that raises or never ends leaves a file that no load can read.      *)
(***************************************************************************)
CONSTANTS
  Addresses,     \* normalized MAC addresses
  Blank,         \* the empty text
  DefaultType, DefaultLocation,
  Absent,        \* there is no file
  Torn           \* a file that is empty or cut off

VARIABLE files

Defaults == [type |-> DefaultType, name |-> Blank, location |-> DefaultLocation]

Init == files = [a \in Addresses |-> Absent]

\* Mutant: a file that cannot be read counts as none.
ReadableAlways(a) == files[a] = files[a]

Readable(a) == files[a] # Torn

\* Of an absent file load() makes the defaults, without saving them.
Load(a) == IF files[a] \in {Absent, Torn} THEN Defaults ELSE files[a]

\* Mutant: ensure() does not ask whether the file was there.
EnsuredAnew(a, type, name) ==
  [Load(a) EXCEPT !.type = type, !.name = IF @ = Blank THEN name ELSE @]

\* What ensure() saves: the type is given to a new file only, the name to one that
\* has none.
Ensured(a, type, name) ==
  [Load(a) EXCEPT !.type = IF files[a] = Absent THEN type ELSE @,
                  !.name = IF @ = Blank THEN name ELSE @]

\* The value a field is set to if the operator gives v.
Setting(field, v) == IF v = Blank THEN Defaults[field] ELSE v

\* What set_field() saves.
Changed(a, field, v) == [Load(a) EXCEPT ![field] = Setting(field, v)]

Save(a, config) == files' = [files EXCEPT ![a] = config]

\* What a save of config as the file of a, which raises or never returns, can leave of
\* the files F: it was not opened yet, or truncated, or has the whole text.
Interrupted(F, a, config) ==
  { F, [F EXCEPT ![a] = Torn], [F EXCEPT ![a] = config] }
=============================================================================
