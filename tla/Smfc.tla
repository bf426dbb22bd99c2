-------------------------------- MODULE Smfc --------------------------------
(***************************************************************************)
(* The code generator smfc (smfc/main.cc, codegen.cc, generator.h) run     *)
(* again and again over the same directories, as a build does.             *)
(*                                                                         *)
(* A command gives the flags: whether --filename is empty, the languages   *)
(* of --language in order, and what --output_path names: "" nothing,       *)
(* "missing" no such path, "file" not a directory, "cwd" the working       *)
(* directory, "out" another directory.  The input is edited or removed at  *)
(* any moment, the process is killed at any moment, and file system calls  *)
(* fail.                                                                   *)
(***************************************************************************)
EXTENDS Integers, Sequences, Functions

CONSTANTS
  Commands,     \* the command lines in use
  Schemas,      \* the contents the input file may have
  OldDirs,      \* the package directories there at first: sets of <<base, package>>
  MaxRuns,      \* bound on the runs of smfc
  None,         \* no schema, no exit code, no input file
  BadInput,     \* an input file that flatbuffers does not parse
  Torn          \* a file written in part

ASSUME SmfcAssumption ==
  /\ \A c \in Commands : c.langs \in Seq(STRING)
  /\ None \notin Schemas /\ None \notin {"ok", "error", "abort", "killed"}

VARIABLES
  cmd,      \* the flags of the current run
  pc,       \* where the run is
  loaded,   \* codegen::parser_: the schema parsed by this run
  todo,     \* the languages codegen::gen still has to generate
  text,     \* generator::printer_'s contents
  code,     \* how the run ended: None, "ok" (0), "error" (1), "abort", "killed"
  input,    \* the input file
  dirs,     \* the package directories on disk
  files,    \* the generated files on disk: path -> contents
  runs

vars == <<cmd, pc, loaded, todo, text, code, input, dirs, files, runs>>
run == <<cmd, loaded, todo, text>>
disk == <<input, dirs, files>>

Languages == {"cpp", "go", "python"}   \* a text is <<language, schema>>

(* split_langs: unknown languages are skipped.                             *)
split_langs(langs) ==
  LET retval[n \in 0..Len(langs)] ==
        IF n = 0 THEN <<>>
        ELSE IF langs[n] \in Languages THEN Append(retval[n - 1], langs[n]) ELSE retval[n - 1]
  IN retval[Len(langs)]

(* output_filename of the three generators.                                *)
PackageDir(c, s) == <<c.out, s.package>>
output_filename(c, s, l) ==
  IF l = "cpp" THEN <<c.out, <<>>, l>> ELSE <<c.out, s.package, l>>

Language == Head(todo)
Path == output_filename(cmd, loaded, Language)
DirExists == Language = "cpp" \/ PackageDir(cmd, loaded) \in dirs

Init ==
  /\ cmd \in Commands /\ input \in Schemas \cup {BadInput, None}
  /\ dirs \in OldDirs /\ files = <<>>
  /\ pc = "flags" /\ loaded = None /\ todo = <<>> /\ text = <<>>
  /\ code = None /\ runs = 1

-----------------------------------------------------------------------------
Running == code = None
At(label) == Running /\ pc = label
Goto(label) == pc' = label /\ UNCHANGED code
Exit(c) == pc' = "exit" /\ code' = c

(* main: the flags.  canonical() throws for a path that is not there.      *)
Flags ==
  /\ At("flags")
  /\ CASE cmd.filename = "" \/ input = None \/ cmd.out = "" -> Exit("error")
       [] OTHER -> IF cmd.out = "missing" THEN Exit("abort")
                   ELSE IF cmd.out = "file" THEN Exit("error") ELSE Goto("codegen")
  /\ UNCHANGED <<run, disk, runs>>

(* codegen::codegen: LOG(FATAL) without a language.                        *)
Construct ==
  /\ At("codegen")
  /\ IF split_langs(cmd.langs) = <<>> THEN Exit("abort") ELSE Goto("parse")
  /\ UNCHANGED <<run, disk, runs>>

(* codegen::parse and service_count; a schema without services goes on.    *)
(* gen calls parse() again, which returns at once.                         *)
Parse ==
  /\ At("parse")
  /\ IF input \in Schemas
     THEN loaded' = input /\ todo' = split_langs(cmd.langs) /\ Goto("print")
     ELSE Exit("error") /\ UNCHANGED <<loaded, todo>>
  /\ UNCHANGED <<cmd, text, disk, runs>>

(* The generate_ calls of gen().  Go reads package_parts().back(), which   *)
(* is undefined without a namespace: the process dies there, or later in   *)
(* create_directories("").                                                 *)
PrintText ==
  /\ At("print")
  /\ text' = <<Language, loaded>>
  /\ IF Language = "cpp" THEN Goto("save")
     ELSE IF loaded.package # <<>> THEN Goto("mkdir")
     ELSE Exit("abort")
  /\ UNCHANGED <<cmd, loaded, todo, disk, runs>>

(* go_generator::gen, python_generator::gen: the directories are made      *)
(* relative to the working directory.                                      *)
CreateDirectories ==
  /\ At("mkdir")
  /\ dirs' = dirs \cup {<<"cwd", loaded.package>>}
  /\ Goto("save")
  /\ UNCHANGED <<run, input, files, runs>>

(* boost::filesystem throws, and nothing catches it.                       *)
FilesystemThrows ==
  /\ Running /\ pc \in {"mkdir", "save"}
  /\ Exit("abort")
  /\ UNCHANGED <<run, disk, runs>>

(* Mutant: the other files of the output directory are removed too.        *)
RemoveAllOld ==
  /\ At("save")
  /\ files' = [p \in {q \in DOMAIN files : q[1] # cmd.out} |-> files[p]]
  /\ Goto("write")
  /\ UNCHANGED <<run, input, dirs, runs>>

(* generator::save_conents_to_file: remove the old file, write the new.    *)
RemoveOld ==
  /\ At("save")
  /\ files' = [p \in DOMAIN files \ {Path} |-> files[p]]
  /\ Goto("write")
  /\ UNCHANGED <<run, input, dirs, runs>>

Store(contents) ==
  files' = [p \in DOMAIN files \cup {Path} |-> IF p = Path THEN contents ELSE files[p]]

(* The next language of codegen::gen, or the end of main.                  *)
NextLanguage ==
  /\ todo' = Tail(todo) /\ text' = <<>>
  /\ IF Tail(todo) = <<>> THEN Exit("ok") ELSE Goto("print")

Save ==
  /\ At("write") /\ DirExists
  /\ Store(text)
  /\ NextLanguage
  /\ UNCHANGED <<cmd, loaded, input, dirs, runs>>

(* Mutant: the result of SaveFile is not looked at.                        *)
SaveFailsUnseen ==
  /\ At("write")
  /\ \/ UNCHANGED files
     \/ DirExists /\ Store(Torn)
  /\ NextLanguage
  /\ UNCHANGED <<cmd, loaded, input, dirs, runs>>

SaveFails ==
  /\ At("write")
  /\ \/ UNCHANGED files
     \/ DirExists /\ Store(Torn)
  /\ Exit("error")
  /\ UNCHANGED <<run, input, dirs, runs>>

-----------------------------------------------------------------------------
(* The environment.                                                        *)
Killed ==
  /\ Running
  /\ \/ UNCHANGED files
     \/ At("write") /\ DirExists /\ Store(Torn)
  /\ Exit("killed")
  /\ UNCHANGED <<run, input, dirs, runs>>

Edit ==
  /\ input' \in (Schemas \cup {BadInput, None}) \ {input}
  /\ UNCHANGED <<run, pc, code, dirs, files, runs>>

Again ==
  /\ ~Running /\ runs < MaxRuns
  /\ cmd' \in Commands /\ runs' = runs + 1
  /\ pc' = "flags" /\ code' = None /\ loaded' = None /\ todo' = <<>> /\ text' = <<>>
  /\ UNCHANGED disk

Step ==
  \/ Flags \/ Construct \/ Parse \/ PrintText \/ CreateDirectories \/ FilesystemThrows
  \/ RemoveOld \/ Save \/ SaveFails

Next == Step \/ Killed \/ Edit \/ Again

Spec == Init /\ [][Next]_vars

-----------------------------------------------------------------------------
Requested == {output_filename(cmd, loaded, l) : l \in Range(split_langs(cmd.langs))}

(* Exit code 0 means that the file of every known language of the command  *)
(* holds the whole text of the schema this run parsed, whatever earlier    *)
(* runs, kills and failed writes left there (main, save_conents_to_file).  *)
SuccessMeansComplete ==
  code = "ok" => \A l \in Range(split_langs(cmd.langs)) :
                LET p == output_filename(cmd, loaded, l)
                IN p \in DOMAIN files /\ files[p] = <<l, loaded>>

(* A run changes no generated file but those of its command, and changes   *)
(* none before it has parsed the input.                                    *)
OthersUntouched ==
  [][\A p \in DOMAIN files \cup DOMAIN files' :
       (p \in DOMAIN files /\ p \in DOMAIN files' /\ files[p] = files'[p])
         \/ (loaded # None /\ p \in Requested)]_files

(* "for Go make sure that the directories exist" (go_generator.h:42): when *)
(* a file is to be saved its directory is there.                           *)
DirectoriesExist == At("write") => DirExists

=============================================================================
