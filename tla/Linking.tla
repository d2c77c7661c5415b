------------------------------- MODULE Linking -------------------------------
(***************************************************************************)
(* binrec_link: the sections of the original binary are put into an        *)
(* object, and linked with the recovered one so that they keep their       *)
(* addresses (binrec_link/src).  Python processes call it from the         *)
(* extension module _binrec_link, between calls of _binrec_lift; others    *)
(* run the executable.  All share the directory for temporary files and    *)
(* the trace directories.                                                  *)
(***************************************************************************)
EXTENDS LiftCalls, Sequences, FiniteSetsExt, TLC

CONSTANTS
  Tools,      \* processes that run the executable binrec_link
  WorkDirs,   \* names that createUniqueDirectory may come up with
  Binaries,   \* original binaries: [kind, sections], sections: [name, addr, size, nobits,
              \* flags, data]
  NewCode     \* [addr, size] of what the linker script places itself

\* The section table of a binary is finite.
ASSUME LinkingAssumption ==
  /\ None \notin WorkDirs
  /\ \A b \in Binaries : Len(b.sections) \in Nat

VARIABLES
  binary,     \* by trace directory: its original binary
  work,       \* the work directories: by name, their files
  ctx,        \* by process: LinkContext and the local variables of run_link
  recovered,  \* by trace directory: the recovered binary
  unread      \* history: work directories of calls that could not read their binary

linkVars == <<binary, work, ctx, recovered, unread>>
vars == <<liftVars, linkVars>>

Processes == Pythons \cup Tools

LinkSteps ==
  {"open", "copy_sections", "make_object", "load_dependencies", "link_recovered_binary",
   "stitch", "copy_file", "cleanup", "ended", "aborted"}

NoContext == [dir |-> None, sections |-> << >>]

\* Types of the state of all processes, of the shared directories and their files.
TypeOK ==
  /\ LiftTypeOK
  /\ at \in [Processes -> LiftSteps \cup LinkSteps]
  /\ job \in [Processes -> TraceDirs \cup {None}]
  /\ binary \in [TraceDirs -> Binaries]
  /\ DOMAIN work \subseteq WorkDirs
  /\ ctx = [p \in Processes |-> [dir |-> ctx[p].dir, sections |-> ctx[p].sections]]
  /\ \A p \in Processes : ctx[p].dir \in WorkDirs \cup {None}
  /\ DOMAIN recovered = TraceDirs
  /\ unread \subseteq WorkDirs

Init ==
  /\ LiftInit
  /\ at = [p \in Processes |-> "idle"]
  /\ job = [p \in Processes |-> None]
  /\ binary \in [TraceDirs -> Binaries]
  /\ work = << >>
  /\ ctx = [p \in Processes |-> NoContext]
  /\ recovered = [d \in TraceDirs |-> None]
  /\ unread = {}

-----------------------------------------------------------------------------
(* Sections.  A name is the sequence of its parts, the dots and the dashes *)
(* between them.                                                           *)

\* Sections without an address are not part of the program's memory; the others, by
\* their index in the section table.
get_ranges(b) ==
  [i \in {k \in 1..Len(b.sections) : b.sections[k].addr # 0} |-> b.sections[i]]

SectionFile(name) == <<"section", name>>

\* One file per name: of two sections of a name the second overwrites the first.
copy_ranges(sections) ==
  LET written == {i \in DOMAIN sections : ~sections[i].nobits}
      writers(f) == {i \in written : SectionFile(sections[i].name) = f}
  IN  [f \in {SectionFile(sections[i].name) : i \in written} |-> sections[Max(writers(f))].data]

\* The symbol of a section.
Normalized(name) == [i \in 1..Len(name) |-> IF name[i] \in {".", "-"} THEN "_" ELSE name[i]]

\* The assembler rejects a second definition of a symbol, and a missing file.
Assembles(sections, files) ==
  /\ \A i, j \in DOMAIN sections :
       Normalized(sections[i].name) = Normalized(sections[j].name) => i = j
  /\ \A i \in DOMAIN sections :
       sections[i].nobits \/ SectionFile(sections[i].name) \in DOMAIN files

\* A section with a flag of its processor is written without any.
section_flags_to_str(flags) == IF "proc" \in flags THEN {} ELSE flags

\* .zero for a section without contents, .incbin of the file of another.
Assembled(sections, files) ==
  { [name |-> sections[i].name, size |-> sections[i].size,
     flags |-> section_flags_to_str(sections[i].flags),
     data |-> IF sections[i].nobits THEN "zero" ELSE files[SectionFile(sections[i].name)]] :
      i \in DOMAIN sections }

\* The script: each section of the object goes to its address.  What is not allocated
\* is not part of the memory of the recovered program.
Placed(sections, object) ==
  UNION { { [addr |-> sections[i].addr, size |-> o.size, data |-> o.data] :
              o \in {q \in object : q.name = sections[i].name /\ "alloc" \in q.flags} } : i \in DOMAIN sections }

Disjoint(a, b) == a.addr + a.size <= b.addr \/ b.addr + b.size <= a.addr

\* The linker rejects sections that overlap.
Links(placed) == \A a, b \in placed \cup {NewCode} : a = b \/ Disjoint(a, b)

-----------------------------------------------------------------------------
(* The steps of a call.  Any of them may fail, also for reasons that are   *)
(* not modelled: a full disk, an environment without a compiler.           *)
Continue(p, next) == at' = [at EXCEPT ![p] = next]

Files(p) == work[ctx[p].dir]
DirThere(p) == ctx[p].dir \in DOMAIN work

\* Files, or directories, when others are written beside or over them.
With(files, new) ==
  [f \in DOMAIN files \cup DOMAIN new |-> IF f \in DOMAIN new THEN new[f] ELSE files[f]]

Put(p, new) == work' = [work EXCEPT ![ctx[p].dir] = With(@, new)]

\* A Python process returns from the call, an executable ends.
Return(p) ==
  /\ Continue(p, IF p \in Tools THEN "ended" ELSE "idle")
  /\ job' = [job EXCEPT ![p] = None]
  /\ ctx' = [ctx EXCEPT ![p] = NoContext]

restOfLift == <<cwd, limit, temps, leftover, stranded, dirs>>

\* Defect: all calls work in the same directories.
NewDirs_Shared == WorkDirs

\* createUniqueDirectory makes a directory that did not exist.
NewDirs == WorkDirs \ DOMAIN work

StartLink(p) ==
  /\ at[p] = "idle"
  /\ \/ \E d \in NewDirs, t \in TraceDirs :
          /\ work' = With([w \in {d} |-> << >>], work)
          /\ ctx' = [ctx EXCEPT ![p].dir = d]
          /\ job' = [job EXCEPT ![p] = t]
          /\ Continue(p, "open")
     \/ Return(p) /\ UNCHANGED work
  /\ IF p \in Pythons THEN Forget(p) ELSE UNCHANGED <<asked, ran>>
  /\ UNCHANGED <<restOfLift, binary, recovered, unread>>

\* If the binary cannot be read both callers return at once.
OpenBinary(p) ==
  /\ at[p] = "open"
  /\ \/ /\ job[p] \in dirs
        /\ binary[job[p]].kind # "unreadable"
        /\ Continue(p, "copy_sections")
        /\ UNCHANGED <<job, ctx, unread>>
     \/ Return(p) /\ unread' = unread \cup {ctx[p].dir}
  /\ UNCHANGED <<restOfLift, asked, ran, binary, work, recovered>>

\* run_link returns an error.
Fails(p, step) ==
  /\ at[p] = step
  /\ Continue(p, "cleanup")
  /\ UNCHANGED <<restOfLift, asked, ran, job, linkVars>>

CopySections(p) ==
  LET sections == get_ranges(binary[job[p]]) IN
  /\ at[p] = "copy_sections"
  /\ binary[job[p]].kind = "elf"
  /\ DirThere(p)
  /\ Put(p, copy_ranges(sections))
  /\ ctx' = [ctx EXCEPT ![p].sections = sections]
  /\ Continue(p, "make_object")
  /\ UNCHANGED <<restOfLift, asked, ran, job, binary, recovered, unread>>

MakeObject(p) ==
  /\ at[p] = "make_object"
  /\ DirThere(p)
  /\ Assembles(ctx[p].sections, Files(p))
  /\ Put(p, [f \in {<<"original.o">>} |-> Assembled(ctx[p].sections, Files(p))])
  /\ Continue(p, IF p \in Tools THEN "link_recovered_binary" ELSE "load_dependencies")
  /\ UNCHANGED <<restOfLift, asked, ran, job, ctx, binary, recovered, unread>>

\* Only the extension module has the argument for it.
LoadDependencies(p) ==
  /\ at[p] = "load_dependencies"
  /\ job[p] \in dirs
  /\ Continue(p, "link_recovered_binary")
  /\ UNCHANGED <<restOfLift, asked, ran, job, linkVars>>

LinkRecoveredBinary(p) ==
  LET placed == Placed(ctx[p].sections, Files(p)[<<"original.o">>]) IN
  /\ at[p] = "link_recovered_binary"
  /\ job[p] \in dirs
  /\ DirThere(p)
  /\ <<"original.o">> \in DOMAIN Files(p)
  /\ Links(placed)
  /\ Put(p, [f \in {<<"output">>} |-> placed])
  /\ Continue(p, "stitch")
  /\ UNCHANGED <<restOfLift, asked, ran, job, ctx, binary, recovered, unread>>

\* main does not catch what LINK_ASSERT throws.
Catches(p) == p \in Pythons

\* A linker script without the place for the sections.
LinkAssertFails(p) ==
  /\ at[p] = "link_recovered_binary"
  /\ Continue(p, IF Catches(p) THEN "cleanup" ELSE "aborted")
  /\ UNCHANGED <<restOfLift, asked, ran, job, linkVars>>

\* There are no patches to apply, so the output only has to be there.
Stitch(p) ==
  /\ at[p] = "stitch"
  /\ DirThere(p)
  /\ Continue(p, "copy_file")
  /\ UNCHANGED <<restOfLift, asked, ran, job, linkVars>>

CopyFile(p) ==
  /\ at[p] = "copy_file"
  /\ job[p] \in dirs
  /\ DirThere(p)
  /\ recovered' = [recovered EXCEPT ![job[p]] = Files(p)[<<"output">>]]
  /\ Continue(p, "cleanup")
  /\ UNCHANGED <<restOfLift, asked, ran, job, binary, work, ctx, unread>>

\* The destination was opened, and not written to the end.
CopyFileFails(p) ==
  /\ at[p] = "copy_file"
  /\ job[p] \in dirs
  /\ recovered' = [recovered EXCEPT ![job[p]] = None]
  /\ Continue(p, "cleanup")
  /\ UNCHANGED <<restOfLift, asked, ran, job, binary, work, ctx, unread>>

\* Defect: only a call that succeeded cleans up, here: one that has an output.
Cleaned_OnSuccess(p) == IF <<"output">> \in DOMAIN Files(p) THEN {ctx[p].dir} ELSE {}

Cleaned(p) == {ctx[p].dir}

CleanupLink(p) ==
  /\ at[p] = "cleanup"
  /\ work' = [d \in DOMAIN work \ Cleaned(p) |-> work[d]]
  /\ Return(p)
  /\ UNCHANGED <<restOfLift, asked, ran, binary, recovered, unread>>

DirRemoved(d) ==
  /\ RemoveDir(d)
  /\ recovered' = [t \in TraceDirs |-> IF t = d THEN None ELSE recovered[t]]
  /\ UNCHANGED <<binary, work, ctx, unread>>

LinkNext(p) ==
  \/ StartLink(p)
  \/ OpenBinary(p)
  \/ CopySections(p)
  \/ MakeObject(p)
  \/ LoadDependencies(p)
  \/ LinkRecoveredBinary(p)
  \/ LinkAssertFails(p)
  \/ Stitch(p)
  \/ CopyFile(p)
  \/ CopyFileFails(p)
  \/ \E step \in LinkSteps \ {"open", "cleanup", "ended", "aborted"} : Fails(p, step)
  \/ CleanupLink(p)

Next ==
  \/ \E p \in Pythons : LiftNext(p) /\ UNCHANGED linkVars
  \/ \E p \in Processes : LinkNext(p)
  \/ \E d \in Dirs : DirRemoved(d)

Spec == Init /\ [][Next]_vars

-----------------------------------------------------------------------------
\* A recovered binary has every section of its original binary at the address it had,
\* with its contents, whatever other calls are doing at the same time and however
\* sections are named: lifted code uses the original addresses.  Sections with a flag of
\* their processor are not loaded.
SectionsInPlace ==
  \A t \in TraceDirs : recovered[t] # None =>
    \A i \in 1..Len(binary[t].sections) :
      LET s == binary[t].sections[i] IN
      s.addr # 0 /\ "alloc" \in s.flags /\ "proc" \notin s.flags =>
                    /\ [addr |-> s.addr, size |-> s.size,
                        data |-> IF s.nobits THEN "zero" ELSE s.data] \in recovered[t]
                    /\ \A q \in recovered[t] : q.addr = s.addr \/ Disjoint(q, s)

\* However a call ends, its work directory is gone.  Two kinds of calls leave one: those
\* that could not read the original binary, with nothing in it, and executables that
\* were aborted.
WorkRemoved ==
  \A d \in DOMAIN work :
    \/ d \in unread /\ work[d] = << >>
    \/ \E p \in Processes : ctx[p].dir = d /\ at[p] # "idle"
=============================================================================
