------------------------------- MODULE Dumpver -------------------------------
(***************************************************************************)
(* oa-dumpver (config/dumpver.cpp), which prints the version information   *)
(* of a binary, and other programs that keep version_info objects, such as *)
(* the Python and R modules of config/module.i.                            *)
(***************************************************************************)
EXTENDS VersionInfo

CONSTANTS
    CommandLines,   \* what follows the program's name
    Clients         \* objects of other programs; dumpver has one, "info"

ASSUME ClientsAssumption == Clients \cup {"info"} \subseteq InfoObjects

VARIABLES
    args, opts,     \* the command line, and what parse_args made of it
    status,         \* where main is, or how it ended
    printed         \* what it printed
all == <<infoVars, args, opts, status, printed>>
main_vars == <<args, opts, status, printed>>

\* The other program's arguments.
NoArgs == <<"client">>

DumpverInit ==
    /\ InfoInit
    /\ args \in CommandLines \cup {NoArgs}
    /\ opts = [help |-> FALSE, version |-> FALSE, path |-> ""]
    /\ status = IF args = NoArgs THEN "client" ELSE "parse"
    /\ printed = <<>>

-----------------------------------------------------------------------------
(* parse_args *)

Flags == {"-h", "--help", "-v", "--version"}
IsHelp(arg) == arg \in {"-h", "--help"}
IsVersion(arg) == arg \in {"-v", "--version"}
Unknown(arg) == arg = "-x"
IsPath(arg) == arg \notin Flags \cup {"-x", ""}

\* The first argument that ends the loop, help or an error, or none.
Ends(argv, i) ==
    \/ IsHelp(argv[i]) \/ Unknown(argv[i])
    \/ argv[i] \notin Flags /\ \E j \in 1 .. i - 1 : IsPath(argv[j])
End(argv) == Min({i \in DOMAIN argv : Ends(argv, i)} \cup {Len(argv) + 1})

parse_args(argv) ==
    LET seen == {argv[i] : i \in 1 .. End(argv) - 1}
        paths == {arg \in seen : IsPath(arg)}
    IN  [help |-> End(argv) =< Len(argv) /\ IsHelp(argv[End(argv)]),
         version |-> \E arg \in seen : IsVersion(arg),
         path |-> IF paths = {} THEN "" ELSE CHOOSE arg \in paths : TRUE]
ParsesWell(argv) ==
    LET options == parse_args(argv) IN
    \/ options.help
    \/ /\ End(argv) > Len(argv)
       /\ options.version \/ options.path # ""

-----------------------------------------------------------------------------
(* main *)

ParseArgs ==
    /\ status = "parse"
    /\ opts' = parse_args(args)
    /\ status' = IF ~ParsesWell(args) THEN "failure"
                 ELSE IF opts'.help \/ opts'.version THEN "success" ELSE "load"
    /\ UNCHANGED <<infoVars, args, printed>>

\* info = opts.path; a path other than the file's does not exist.
Load ==
    /\ status = "load"
    /\ IF opts.path = "FILE" THEN Construct("info") /\ status' = "loading"
       ELSE status' = "failure" /\ UNCHANGED infoVars
    /\ UNCHANGED <<args, opts, printed>>

\* The constructor runs; an exception is caught and reported.
Loading ==
    /\ status \in {"client", "loading"}
    /\ Reading
    /\ status' = IF status = "loading" /\ pc' = "idle"
                 THEN IF pc = "throw" THEN "failure" ELSE "print"
                 ELSE status
    /\ UNCHANGED <<args, opts, printed>>

PrintInfo ==
    /\ status = "print"
    /\ printed' = <<product("info"), company("info"), description("info"),
                    version_hex("info"), version("info"), filename("info")>>
    /\ status' = "success"
    /\ UNCHANGED <<infoVars, args, opts>>

\* main returns and info goes out of scope.
Return ==
    /\ status \in {"success", "failure"}
    /\ destroy("info")
    /\ UNCHANGED main_vars

\* Another program constructs, assigns and destroys its objects.
Client ==
    /\ status = "client"
    /\ \/ \E o \in Clients : Construct(o) \/ destroy(o)
       \/ \E o, p \in Clients : MoveInto(o, p)
    /\ UNCHANGED main_vars

DumpverNext ==
    /\ undefined = "no"
    /\ \/ Write /\ UNCHANGED main_vars
       \/ ParseArgs \/ Load \/ Loading \/ PrintInfo \/ Return \/ Client

\* A program that is running goes on; the file need not ever be complete.
DumpverSpec ==
    /\ DumpverInit /\ [][DumpverNext]_all
    /\ WF_all(undefined = "no" /\ (ParseArgs \/ Load \/ Loading \/ PrintInfo \/ Return))

-----------------------------------------------------------------------------
(* What must hold *)

\* A dump that ends well printed what was embedded in the file, digit by
\* digit, or had no file to print (dumpver.cpp:106-141): not an older state of
\* a file that was still being written, and not an empty line for a section
\* that was there.
DumpsWhatWasEmbedded ==
    status = "success" =>
        \/ opts.help \/ opts.version
        \/ /\ opts.path = "FILE"
           /\ \A k \in {1, 2, 3} : printed[k] = file.says[<<4, 1, 2>>[k]]
           /\ <<printed[5], printed[6]>> = <<file.says[5], file.says[3]>>
           /\ \A k \in 1 .. NumSize :
                printed[4][2 * k - 1] * 16 + printed[4][2 * k] = file.says[6][NumSize + 1 - k]

\* Every dump comes to an end, whatever the file is like and however it grows
\* (version_info.cpp:306-331 reads as many headers as the file claims).
EveryDumpEnds == status # "client" ~> (status \in {"success", "failure"} \/ undefined # "no")
=============================================================================
