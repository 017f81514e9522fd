-------------------------------- MODULE Wire --------------------------------
(***************************************************************************)
(* `wire` adds captrack to the Cargo.toml files of a workspace and saves   *)
(* what they were; `unwire` reverts them (src/captrack-pgo/src/wire.rs).   *)
(*                                                                         *)
(* A Cargo.toml is the text its owner wrote, as a number, and the tables   *)
(* that list captrack.  Equal sha256 sums are equal contents.  One step    *)
(* reads, checks and writes one file: nobody else writes it in between,    *)
(* but between two commands the owner may change any of the files.         *)
(*                                                                         *)
(* A command may stop early, by an error or because it is killed.  When    *)
(* that happens within fs::write, which truncates the file first, the file *)
(* is left torn; a torn Cargo.toml may or may not parse, and lists nothing *)
(***************************************************************************)
EXTENDS Naturals, Sequences, FiniteSets, SequencesExt

CONSTANTS
  Root,        \* the workspace's Cargo.toml
  Members,     \* the members' Cargo.toml files, in the order they are patched
  MaxWires,    \* bound: wires begun since the workspace was last clean
  MaxEdits,    \* bound: texts the owner writes
  MaxStops,    \* bound: commands that stop early, or fail to remove a file
  Torn,        \* what a half-written file holds
  NoManifest   \* last-wire.json does not exist

Files == {Root} \cup ToSet(Members)
Tables == {"workspace", "dependencies"}

\* A Cargo.toml, and what wire records of one it patches.
Contents == [text : Nat \cup {Torn}, deps : SUBSET Tables]
Entry == [file : Files, before : Contents, after : Contents]

ASSUME WireAssumption ==
  /\ Members \in Seq(ToSet(Members))
  /\ IsInjective(Members)
  /\ MaxWires \in Nat
  /\ MaxEdits \in Nat
  /\ MaxStops \in Nat
  /\ Torn \notin Nat
  /\ NoManifest # Torn
  /\ {NoManifest, Torn} \cap Seq(Entry) = {}

VARIABLES
  file,     \* [text, deps] of each Cargo.toml
  saved,    \* last-wire.json: its entries, NoManifest or Torn
  cmd,      \* the command under way: "none", "wire" or "unwire"
  next,     \* index of the patch, or of the entry, that comes next
  entries,  \* WireFileEntry records: those collected, or those read
  result,   \* how the last command ended
  added,    \* history: tables of each file to which wire has added captrack
  wires,    \* history: wires begun since no such table was left
  paired,   \* history: whether just one was, and it ran to its end
  edits,    \* history: texts written by the owner
  edited,   \* history: whether the owner wrote since the last wire began
  stops     \* history: commands that stopped early

vars == <<file, saved, cmd, next, entries, result, added, wires, paired, edits, edited, stops>>

\* Slip: the members are patched before the root.
PatchesRootLast ==
  [i \in 1 .. Len(Members) |-> [file |-> Members[i], table |-> "dependencies"]]
    \o <<[file |-> Root, table |-> "workspace"]>>

\* Root manifest first, then every member; "." makes the root a member too.
Patches ==
  <<[file |-> Root, table |-> "workspace"]>>
    \o [i \in 1 .. Len(Members) |-> [file |-> Members[i], table |-> "dependencies"]]

\* The tables in which a manifest can list captrack for wire to find.
TablesOf(f) == {Patches[i].table : i \in {j \in DOMAIN Patches : Patches[j].file = f}}

\* A manifest with captrack added to a table.
Listing(c, table) == [text |-> c.text, deps |-> c.deps \cup {table}]

Finish(how) ==
  /\ cmd' = "none"
  /\ result' = how
  /\ entries' = <<>>
  /\ next' = 1

Marked == \E f \in Files : added[f] # {}

(***************************************************************************)
(* wire                                                                    *)
(***************************************************************************)

BeginWire ==
  /\ cmd = "none"
  /\ wires < MaxWires
  /\ cmd' = "wire"
  /\ wires' = IF Marked THEN wires + 1 ELSE 1
  /\ paired' = FALSE
  /\ result' = "none"
  /\ edited' = FALSE
  /\ UNCHANGED <<file, saved, next, entries, added, edits, stops>>

\* Slip: what the file was before is not recorded for a member.
PatchUnrecorded ==
  /\ cmd = "wire"
  /\ next <= Len(Patches)
  /\ LET p == Patches[next]
         after == Listing(file[p.file], p.table)
     IN  /\ p.table \notin file[p.file].deps
         /\ file' = [file EXCEPT ![p.file] = after]
         /\ entries' = IF p.table = "workspace"
                         THEN Append(entries, [file |-> p.file, before |-> file[p.file],
                                               after |-> after])
                         ELSE entries
         /\ added' = [added EXCEPT ![p.file] = @ \cup {p.table}]
  /\ next' = next + 1
  /\ UNCHANGED <<saved, cmd, result, wires, paired, edits, edited, stops>>

\* Slip: the sum recorded is that of the file as it was.
PatchOldSum ==
  /\ cmd = "wire"
  /\ next <= Len(Patches)
  /\ LET p == Patches[next]
         after == Listing(file[p.file], p.table)
     IN  /\ p.table \notin file[p.file].deps
         /\ file' = [file EXCEPT ![p.file] = after]
         /\ entries' = Append(entries, [file |-> p.file, before |-> file[p.file],
                                        after |-> file[p.file]])
         /\ added' = [added EXCEPT ![p.file] = @ \cup {p.table}]
  /\ next' = next + 1
  /\ UNCHANGED <<saved, cmd, result, wires, paired, edits, edited, stops>>

\* Add captrack to one manifest, and record what it was and is.
Patch ==
  /\ cmd = "wire"
  /\ next <= Len(Patches)
  /\ LET p == Patches[next]
         after == Listing(file[p.file], p.table)
     IN  /\ p.table \notin file[p.file].deps
         /\ file' = [file EXCEPT ![p.file] = after]
         /\ entries' = Append(entries, [file |-> p.file, before |-> file[p.file],
                                        after |-> after])
         /\ added' = [added EXCEPT ![p.file] = @ \cup {p.table}]
  /\ next' = next + 1
  /\ UNCHANGED <<saved, cmd, result, wires, paired, edits, edited, stops>>

\* captrack is there already: the file is neither touched nor recorded.
SkipWired ==
  /\ cmd = "wire"
  /\ next <= Len(Patches)
  /\ Patches[next].table \in file[Patches[next].file].deps
  /\ next' = next + 1
  /\ UNCHANGED <<file, saved, cmd, entries, result, added, wires, paired, edits, edited, stops>>

\* Slip: the paths are saved without what the files held.
SavePaths ==
  /\ cmd = "wire"
  /\ next > Len(Patches)
  /\ saved' = [i \in 1 .. Len(entries) |-> entries[i].file]
  /\ paired' = (wires = 1)
  /\ Finish("wired")
  /\ UNCHANGED <<file, added, wires, edits, edited, stops>>

\* The manifest comes last, over the one of an earlier wire if there is one.
SaveManifest ==
  /\ cmd = "wire"
  /\ next > Len(Patches)
  /\ saved' = entries
  /\ paired' = (wires = 1)
  /\ Finish("wired")
  /\ UNCHANGED <<file, added, wires, edits, edited, stops>>

(***************************************************************************)
(* unwire                                                                  *)
(***************************************************************************)

\* No manifest, or one that does not parse: nothing is reverted.
NothingToRevert ==
  /\ cmd = "none"
  /\ saved \in {NoManifest, Torn}
  /\ Finish("nothing")
  /\ UNCHANGED <<file, saved, added, wires, paired, edits, edited, stops>>

BeginUnwire ==
  /\ cmd = "none"
  /\ saved \notin {NoManifest, Torn}
  /\ cmd' = "unwire"
  /\ entries' = saved
  /\ result' = "none"
  /\ UNCHANGED <<file, saved, next, added, wires, paired, edits, edited, stops>>

\* Slip: the file is not compared with what wire left.
RevertUnverified ==
  /\ cmd = "unwire"
  /\ next <= Len(entries)
  /\ LET e == entries[next]
     IN  /\ file' = [file EXCEPT ![e.file] = e.before]
         /\ added' = [added EXCEPT ![e.file] = @ \cap e.before.deps]
  /\ next' = next + 1
  /\ UNCHANGED <<saved, cmd, entries, result, wires, paired, edits, edited, stops>>

Revert ==
  /\ cmd = "unwire"
  /\ next <= Len(entries)
  /\ LET e == entries[next]
     IN  /\ file[e.file] = e.after
         /\ file' = [file EXCEPT ![e.file] = e.before]
         /\ added' = [added EXCEPT ![e.file] = @ \cap e.before.deps]
  /\ next' = next + 1
  /\ UNCHANGED <<saved, cmd, entries, result, wires, paired, edits, edited, stops>>

\* The file is not as wire left it: bail, with the earlier ones reverted.
Refuse ==
  /\ cmd = "unwire"
  /\ next <= Len(entries)
  /\ file[entries[next].file] # entries[next].after
  /\ Finish("refused")
  /\ UNCHANGED <<file, saved, added, wires, paired, edits, edited, stops>>

\* A manifest that cannot be removed is left, and nobody is told.
RemoveManifest ==
  /\ cmd = "unwire"
  /\ next > Len(entries)
  /\ \/ saved' = NoManifest /\ UNCHANGED stops
     \/ stops < MaxStops /\ stops' = stops + 1 /\ UNCHANGED saved
  /\ Finish("unwired")
  /\ UNCHANGED <<file, added, wires, paired, edits, edited>>

(***************************************************************************)
(* Early ends, and the owner                                               *)
(***************************************************************************)

Tear(f) ==
  /\ file' = [file EXCEPT ![f] = [text |-> Torn, deps |-> {}]]
  /\ added' = [added EXCEPT ![f] = {}]

\* The file a command would write next.
Target == IF cmd = "wire" THEN Patches[next].file ELSE entries[next].file

Stop ==
  /\ cmd # "none"
  /\ stops < MaxStops
  /\ stops' = stops + 1
  /\ Finish("stopped")
  /\ \/ UNCHANGED <<file, saved, added>>
     \/ /\ next <= Len(IF cmd = "wire" THEN Patches ELSE entries)
        /\ cmd = "wire" => Patches[next].table \notin file[Target].deps
        /\ cmd = "unwire" => file[Target] = entries[next].after
        /\ Tear(Target)
        /\ UNCHANGED saved
     \/ /\ cmd = "wire" /\ next > Len(Patches)
        /\ saved' = Torn
        /\ UNCHANGED <<file, added>>
  /\ UNCHANGED <<wires, paired, edits, edited>>

\* A torn manifest that does not parse ends wire without more ado.
CannotParse ==
  /\ cmd = "wire"
  /\ next <= Len(Patches)
  /\ file[Target].text = Torn
  /\ Finish("stopped")
  /\ UNCHANGED <<file, saved, added, wires, paired, edits, edited, stops>>

\* A new text, or a table emptied of captrack, or filled by hand.
Edit(f, deps) ==
  /\ cmd = "none"
  /\ edits < MaxEdits
  /\ edits' = edits + 1
  /\ edited' = TRUE
  /\ \E text \in {file[f].text, edits + 1} :
       file' = [file EXCEPT ![f] = [text |-> text, deps |-> deps]]
  /\ added' = [added EXCEPT ![f] = @ \cap deps]
  /\ UNCHANGED <<saved, cmd, next, entries, result, wires, paired, stops>>

-----------------------------------------------------------------------------
\* Some manifests may list captrack before it is ever wired.
Init ==
  /\ file \in [Files -> [text : {0}, deps : SUBSET Tables]]
  /\ \A f \in Files : file[f].deps \subseteq TablesOf(f)
  /\ saved = NoManifest
  /\ cmd = "none"
  /\ next = 1
  /\ entries = <<>>
  /\ result = "none"
  /\ added = [f \in Files |-> {}]
  /\ wires = 0
  /\ paired = FALSE
  /\ edits = 0
  /\ edited = FALSE
  /\ stops = 0

Next ==
  \/ BeginWire \/ Patch \/ SkipWired \/ SaveManifest
  \/ NothingToRevert \/ BeginUnwire \/ Revert \/ Refuse \/ RemoveManifest
  \/ Stop \/ CannotParse
  \/ \E f \in Files : \E deps \in SUBSET TablesOf(f) : Edit(f, deps)

Spec == Init /\ [][Next]_vars

-----------------------------------------------------------------------------
\* The values of the variables.
TypeOK ==
  /\ file \in [Files -> Contents]
  /\ saved \in Seq(Entry) \cup {NoManifest, Torn}
  /\ cmd \in {"none", "wire", "unwire"}
  /\ next \in Nat \ {0}
  /\ entries \in Seq(Entry)
  /\ result \in {"none", "wired", "nothing", "unwired", "refused", "stopped"}
  /\ added \in [Files -> SUBSET Tables]
  /\ wires \in Nat
  /\ paired \in BOOLEAN
  /\ edits \in Nat
  /\ edited \in BOOLEAN
  /\ stops \in Nat

\* wire.rs:234-235: neither command ever replaces the text its owner wrote
\* by another one, whatever stale manifest it works from; only a write cut
\* short loses it.
OwnersTextKept ==
  [][\A f \in Files :
       file'[f].text = file[f].text \/ edits' # edits \/ stops' # stops]_vars

\* wire.rs:13-14, "unwire can revert losslessly": unwire leaves nothing of
\* what wire added.
UnwiredIsClean == result = "unwired" => ~Marked

\* The same, for a workspace that was wired just once since it was last
\* clean, by a wire that ran to its end: an early end of any other command,
\* an edit or a stale manifest does not break that pair.
WiredOnceIsClean == paired => UnwiredIsClean

\* Where the workspace lists "." among its members, the root's manifest may
\* be patched in both of its tables and be recorded once for each.
RootTwice(list) ==
  \E i, j \in DOMAIN list : i # j /\ list[i].file = Root /\ list[j].file = Root

\* wire.rs:241, "file was modified after wire": when every command runs
\* to its end, unwire refuses a file only if its owner has changed something
\* since the last wire began, or if the manifest it works from has the root
\* twice, which no unwire can revert.
RefusalMeansEdit ==
  result = "refused" => edited \/ stops > 0 \/ RootTwice(saved)

\* The same without the second exception, which the message does not make.
RefusalBlamesOwner == result = "refused" => edited \/ stops > 0

\* A member's `captrack = { workspace = true }` makes Cargo reject the whole
\* workspace unless the root lists captrack: no step of wire, and no early
\* end of it, leaves the first without the second (wire.rs:155-158), except
\* that a root which is a member too may be torn by the write of its second
\* patch, and then lists nothing.
Inherited == (\E f \in Files : "dependencies" \in added[f]) =>
               "workspace" \in file[Root].deps

WireKeepsInherited ==
  [][cmd = "wire" /\ Inherited =>
       Inherited' \/ (Root \in ToSet(Members) /\ file'[Root].text = Torn)]_vars
=============================================================================
