----------------------------- MODULE ConfigFile -----------------------------
(***************************************************************************)
(* What the store promises about the configuration and its files: the      *)
(* configuration in memory changes key by key, and a save, of whoever,     *)
(* writes the whole of it to a file in one step.  No other step touches a  *)
(* file, a restart included.                                               *)
(***************************************************************************)
CONSTANTS
  Keys,      \* fields and aliases of a configuration
  Values,    \* values of a key
  Paths,     \* names of configuration files
  Unread,    \* what a path holds that cannot be read: nothing, or garbage
  Default    \* the configuration without any file

VARIABLES cfg, files

vars == <<cfg, files>>

Readable(p) == files[p] \notin Unread

Change ==
  /\ \E k \in Keys, v \in Values : cfg' = [cfg EXCEPT ![k] = v]
  /\ UNCHANGED files

Save ==
  /\ \E p \in Paths : files' = [files EXCEPT ![p] = cfg]
  /\ UNCHANGED cfg

Load ==
  /\ \E p \in Paths : Readable(p) /\ cfg' = files[p]
  /\ UNCHANGED files

Restart ==
  /\ cfg' \in {Default} \cup {files[p] : p \in {q \in Paths : Readable(q)}}
  /\ UNCHANGED files

Init == cfg \in {Default} \cup {files[p] : p \in {q \in Paths : Readable(q)}}
Next == Change \/ Save \/ Load \/ Restart
Spec == Init /\ [][Next]_vars
=============================================================================
