----------------------------- MODULE DeviceKey ------------------------------
(***************************************************************************)
(* The device's identity (Endpoint::load_or_create_device_key and          *)
(* write_key_unix, src/net/endpoint.rs): each process that starts reads    *)
(* one file of 32 bytes, or generates a key and creates the file.  The     *)
(* file survives the process; a process may die, and each file operation   *)
(* but the test for existence may fail, between any two steps.             *)
(***************************************************************************)
CONSTANTS Proc,      \* processes that use one configuration directory
          Key,       \* secret keys
          NoKey,     \* the key of a process that has none
          NoFile,    \* contents of the key file: there is none
          Short      \* contents of the key file: fewer than 32 bytes

ASSUME KeyAssumption == /\ NoKey \notin Key
                        /\ NoFile \notin Key
                        /\ Short \notin Key
                        /\ Short # NoFile

VARIABLES file,      \* contents of device_key
          phase,     \* position of each process in with_config
          key,       \* secret_key of each process
          used       \* history: the keys under which an endpoint was bound

keyVars == <<file, phase, key, used>>

Phase == {"down", "reading", "creating", "writing", "binding", "running"}

KeyTypeOK ==
    /\ file \in Key \union {NoFile, Short}
    /\ phase \in [Proc -> Phase]
    /\ key \in [Proc -> Key \union {NoKey}]
    /\ used \in SUBSET Key
    /\ \A p \in Proc : phase[p] \in {"creating", "writing", "binding", "running"} <=> key[p] # NoKey

\* Before the first start of all.
KeyInit ==
    /\ file = NoFile
    /\ phase = [p \in Proc |-> "down"]
    /\ key = [p \in Proc |-> NoKey]
    /\ used = {}

-----------------------------------------------------------------------------
Goes(p, from, to) == phase[p] = from /\ phase' = [phase EXCEPT ![p] = to]

\* The process ends: an error of with_config, a crash, or a normal exit.
Ends(p) ==
    /\ phase' = [phase EXCEPT ![p] = "down"]
    /\ key' = [key EXCEPT ![p] = NoKey]

\* key_path.exists(), whatever the file holds.
FindsFile(p) ==
    /\ file # NoFile
    /\ Goes(p, "down", "reading")
    /\ UNCHANGED <<file, key, used>>

\* Keys are random: a new one is none that is still known anywhere.
Fresh == Key \ (used \union {key[p] : p \in Proc})

\* No file: a new key.
FindsNone(p) ==
    /\ file = NoFile
    /\ Goes(p, "down", "creating")
    /\ \E k \in Fresh : key' = [key EXCEPT ![p] = k]
    /\ UNCHANGED <<file, used>>

\* Mutant: the length of the file is not checked.
Reads_AnyLength(p) ==
    /\ Goes(p, "reading", "binding")
    /\ key' = [key EXCEPT ![p] = file]
    /\ UNCHANGED <<file, used>>

\* Exactly 32 bytes.
Reads(p) ==
    /\ file \in Key
    /\ Goes(p, "reading", "binding")
    /\ key' = [key EXCEPT ![p] = file]
    /\ UNCHANGED <<file, used>>

\* "invalid key length", or an error of open or read_to_end.
ReadFails(p) ==
    /\ phase[p] = "reading"
    /\ Ends(p)
    /\ UNCHANGED <<file, used>>

\* create_dir_all, and open with create and truncate.
Creates(p) ==
    /\ Goes(p, "creating", "writing")
    /\ file' = Short
    /\ UNCHANGED <<key, used>>

\* Mutant: the process goes on with a key it could not save.
CreateFails_Ignored(p) ==
    /\ Goes(p, "creating", "binding")
    /\ UNCHANGED <<file, key, used>>

CreateFails(p) ==
    /\ phase[p] = "creating"
    /\ Ends(p)
    /\ UNCHANGED <<file, used>>

\* write_all of 32 bytes at the start of the file; cut short, it leaves what
\* Creates left.
Writes(p) ==
    /\ Goes(p, "writing", "binding")
    /\ file' = key[p]
    /\ UNCHANGED <<key, used>>

WriteFails(p) ==
    /\ phase[p] = "writing"
    /\ Ends(p)
    /\ UNCHANGED <<file, used>>

\* IrohEndpoint::builder().secret_key(..).bind()
Binds(p) ==
    /\ Goes(p, "binding", "running")
    /\ used' = used \union {key[p]}
    /\ UNCHANGED <<file, key>>

BindFails(p) ==
    /\ phase[p] = "binding"
    /\ Ends(p)
    /\ UNCHANGED <<file, used>>

Start(p) ==
    \/ FindsFile(p) \/ Reads(p) \/ ReadFails(p)
    \/ FindsNone(p) \/ Creates(p) \/ CreateFails(p)
    \/ Writes(p) \/ WriteFails(p)
    \/ Binds(p) \/ BindFails(p)

\* The process dies, at any point.
Crash(p) ==
    /\ phase[p] # "down"
    /\ Ends(p)
    /\ UNCHANGED <<file, used>>

KeyNext == \E p \in Proc : Start(p) \/ Crash(p)

KeySpec == KeyInit /\ [][KeyNext]_keyVars

-----------------------------------------------------------------------------
\* At most one process at a time is in its first start.
OneCreates ==
    \A p, q \in Proc : {phase[p], phase[q]} \subseteq {"creating", "writing"} => p = q

(***************************************************************************)
(* The device id "remains consistent across application restarts"          *)
(* (endpoint.rs, device_id): every key under which an endpoint was ever    *)
(* bound is the one the file holds, whole, whatever crashed or failed      *)
(* before.  The code keeps this while OneCreates: two first starts at once *)
(* truncate each other's file, and run under two keys.                     *)
(***************************************************************************)
IdentityKept == used \subseteq {file}
=============================================================================
