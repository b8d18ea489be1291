---------------------------- MODULE ProjectConfig ----------------------------
(***************************************************************************)
(* The options a load is dispatched with: those of .agda-mcp.json, through *)
(* a cache keyed by the file's mtime and size, then those of the           *)
(* environment, then those of the call.                                    *)
(*                                                                         *)
(* A text of the file is a record [size, json, entries]: entries is what   *)
(* "commandLineOptions" holds, NotOption standing for an entry that is no  *)
(* string, or that validateCommandLineOptions refuses.                     *)
(*                                                                         *)
(* Source: src/session/project-config.ts, src/agda/session.ts (load),      *)
(* src/protocol/command-line-options.ts.                                   *)
(***************************************************************************)
EXTENDS Naturals, Sequences, FiniteSets

CONSTANTS NotOption,
          MaxConfigBytes      \* MAX_CONFIG_FILE_BYTES

(* The elements of s at the positions K, in the order of s.                *)
At(s, K) == [n \in 1..Cardinality(K) |->
               s[CHOOSE i \in K : Cardinality({j \in K : j <= i}) = n]]

(* Every option once, where it occurs first, and where it occurs last.     *)
KeepFirst(s) == At(s, {i \in DOMAIN s : \A j \in DOMAIN s : s[j] = s[i] => i <= j})
KeepLast(s)  == At(s, {i \in DOMAIN s : \A j \in DOMAIN s : s[j] = s[i] => j <= i})

ValidateCommandLineOptions(entries) ==
  KeepFirst(At(entries, {i \in DOMAIN entries : entries[i] # NotOption}))

(* What parseConfigFile makes of a text it could read: options, and whether*)
(* there is a warning.                                                     *)
ParseConfigFile(text) ==
  IF text.json THEN [flags  |-> ValidateCommandLineOptions(text.entries),
                     warned |-> \E i \in DOMAIN text.entries : text.entries[i] = NotOption]
               ELSE [flags |-> <<>>, warned |-> TRUE]

(* A layer without options and with a warning: the file cannot be stat'ed, *)
(* or read, or is too large.                                               *)
Warning == [flags |-> <<>>, warned |-> TRUE]

NoEntry == [layer |-> Warning, mtime |-> 0, size |-> 0, cached |-> FALSE]

Entry(file, layer) ==
  [layer |-> layer, mtime |-> file.mtime, size |-> file.text.size, cached |-> TRUE]

(* Mutated form of Hit: the size alone is the key.                         *)
HitBySize(entry, file) == entry.cached /\ entry.size = file.text.size

Hit(entry, file) == entry.cached /\ entry.mtime = file.mtime /\ entry.size = file.text.size

(* readFileLayer, given the file on disk and how stat and read go: the     *)
(* layer, and what is cached after.                                        *)
ReadFileLayer(file, entry, io) ==
  IF ~file.present THEN [layer |-> [flags |-> <<>>, warned |-> FALSE], cache |-> NoEntry]
  ELSE IF io = "stat fails" THEN [layer |-> Warning, cache |-> entry]
  ELSE IF Hit(entry, file) THEN [layer |-> entry.layer, cache |-> entry]
  ELSE LET layer == IF file.text.size > MaxConfigBytes \/ io = "read fails"
                      THEN Warning ELSE ParseConfigFile(file.text)
       IN [layer |-> layer, cache |-> Entry(file, layer)]

(* mergeCommandLineOptions: the last occurrence of an option wins.         *)
MergeCommandLineOptions(defaults, perCall) == KeepLast(defaults \o perCall)
=============================================================================
