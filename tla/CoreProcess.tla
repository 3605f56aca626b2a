---------------------------- MODULE CoreProcess ----------------------------
(***************************************************************************)
(* Processes of the Core on one machine, from their start to their end     *)
(* (core/cmd/modbus-console-core/main.go), with the file they share, the   *)
(* pairing token (core/internal/engine/token.go), and the Modbus port that *)
(* only one of them can have.  A process may die at any point.             *)
(*                                                                         *)
(* One process is followed into its TCP slave; of the other it matters     *)
(* only that it is up.                                                     *)
(***************************************************************************)
EXTENDS TCPSlave

CONSTANTS
  This, Other,  \* the process whose TCP slave this is, and another
  Token,        \* tokens that LoadOrCreateToken may generate
  Given,        \* a token of 32 characters or more in the environment
  Short,        \* a file that is too short to be a token
  None

Core == {This, Other}

ASSUME CoreAssumption ==
  /\ This # Other
  /\ {Given, Short, None} \cap Token = {} /\ Given # Short /\ Short # None /\ Given # None
  /\ IsFiniteSet(Token) /\ Cardinality(Token) > 2

VARIABLES
  file,         \* the content of pairing-token, None if it does not exist
  stage,        \* how far each process has come with main()
  token,        \* its token
  unseen        \* history: a start has made a token although another was there
                \* or was being made

starting == <<file, stage, token, unseen>>
cvars == <<vars, starting>>

\* A process whose slave does not exist.
CoreInit ==
  /\ main = "exit" /\ closed = TRUE /\ listening = FALSE
  /\ backlog = << >> /\ inbox = [c \in Conn |-> 0]
  /\ accept = "done" /\ taken = NoConn
  /\ handler = [c \in Conn |-> "none"]
  /\ clients = 0 /\ wg = 0
  /\ file = None
  /\ stage = [p \in Core |-> "off"] /\ token = [p \in Core |-> None]
  /\ unseen = FALSE

Rival(p) == IF p = This THEN Other ELSE This

Step(p, from, to) == stage[p] = from /\ stage' = [stage EXCEPT ![p] = to]

\* log.Fatalf before there is a slave.
Fatal(p, from) ==
  /\ Step(p, from, "off")
  /\ token' = [token EXCEPT ![p] = None]

-----------------------------------------------------------------------------
(***************************************************************************)
(* LoadOrCreateToken.                                                      *)
(***************************************************************************)
\* A short token in the environment ends the start at once.
Launch(p) ==
  /\ \/ Step(p, "off", "load") /\ UNCHANGED token
     \/ Step(p, "off", "listen") /\ token' = [token EXCEPT ![p] = Given]
  /\ UNCHANGED <<vars, file, unseen>>

\* Mutant: the length of what was read is not looked at.
ReadFileUnchecked(p) ==
  /\ file # None
  /\ Step(p, "load", "listen")
  /\ token' = [token EXCEPT ![p] = file]
  /\ UNCHANGED <<vars, file, unseen>>

\* Mutant: a file that is too short is replaced.
ReadFileRepairs(p) ==
  /\ \/ /\ file \in Token
        /\ Step(p, "load", "listen")
        /\ token' = [token EXCEPT ![p] = file]
     \/ /\ file = Short
        /\ Step(p, "load", "create")
        /\ \E t \in Token \ {token[Rival(p)]} : token' = [token EXCEPT ![p] = t]
  /\ UNCHANGED <<vars, file, unseen>>

ReadFile(p) ==
  /\ \/ /\ file \in Token
        /\ Step(p, "load", "listen")
        /\ token' = [token EXCEPT ![p] = file]
     \/ file = Short /\ Fatal(p, "load")
  /\ UNCHANGED <<vars, file, unseen>>

\* Any error of ReadFile counts as "no file yet".
Generate(p) ==
  /\ Step(p, "load", "create")
  /\ \E t \in Token \ {file, token[Rival(p)]} : token' = [token EXCEPT ![p] = t]
  /\ unseen' = (unseen \/ file # None \/ stage[Rival(p)] \in {"create", "write"})
  /\ UNCHANGED <<vars, file>>

\* WriteFile, which truncates and then writes; MkdirAll and WriteFile may fail.
Truncate(p) ==
  /\ \/ Step(p, "create", "write") /\ file' = Short /\ UNCHANGED token
     \/ Fatal(p, "create") /\ UNCHANGED file
  /\ UNCHANGED <<vars, unseen>>

WriteToken(p) ==
  /\ \/ Step(p, "write", "listen") /\ file' = token[p] /\ UNCHANGED token
     \/ Fatal(p, "write") /\ UNCHANGED file
  /\ UNCHANGED <<vars, unseen>>

-----------------------------------------------------------------------------
(***************************************************************************)
(* Server.Start, and the end of a process.                                 *)
(***************************************************************************)
Start ==
  /\ stage[Other] # "up"
  /\ Step(This, "listen", "up")
  /\ main' = "running" /\ closed' = FALSE /\ listening' = TRUE
  /\ accept' = "accept" /\ wg' = 1
  /\ inbox' = [c \in Conn |-> 0]
  /\ UNCHANGED <<backlog, taken, handler, clients, file, token, unseen>>

StartOther ==
  /\ ~listening
  /\ Step(Other, "listen", "up")
  /\ UNCHANGED <<vars, file, token, unseen>>

\* The port is taken.
StartFails(p) ==
  /\ IF p = This THEN stage[Other] = "up" ELSE listening
  /\ Fatal(p, "listen")
  /\ UNCHANGED <<vars, file, unseen>>

\* main() returns.
End ==
  /\ main = "exit"
  /\ Step(This, "up", "off")
  /\ token' = [token EXCEPT ![This] = None]
  /\ UNCHANGED <<vars, file, unseen>>

(***************************************************************************)
(* The process is killed, or the control API fails (log.Fatalf in its      *)
(* goroutine); no deferred call runs.  The other process may also end.     *)
(***************************************************************************)
Die(p) ==
  /\ stage[p] # "off" /\ ~(p = This /\ main = "exit" /\ stage[p] = "up")
  /\ stage' = [stage EXCEPT ![p] = "off"] /\ token' = [token EXCEPT ![p] = None]
  /\ IF p = This /\ stage[p] = "up"
     THEN /\ main' = "exit" /\ closed' = TRUE /\ listening' = FALSE
          /\ backlog' = << >> /\ inbox' = [c \in Conn |-> 0]
          /\ accept' = "done" /\ taken' = NoConn
          /\ handler' = [c \in Conn |-> "none"]
          /\ clients' = 0 /\ wg' = 0
     ELSE UNCHANGED vars
  /\ UNCHANGED <<file, unseen>>

CoreNext ==
  \/ Next /\ UNCHANGED starting
  \/ \E p \in Core : Launch(p) \/ ReadFile(p) \/ Generate(p) \/ Truncate(p) \/ WriteToken(p)
                     \/ StartFails(p) \/ Die(p)
  \/ Start \/ StartOther \/ End

CoreSpec == CoreInit /\ [][CoreNext]_cvars /\ Fairness

-----------------------------------------------------------------------------
(***************************************************************************)
(* Every variable has its type, and a process that is off has no token.    *)
(***************************************************************************)
CoreTypeOK ==
  /\ TypeOK
  /\ file \in Token \cup {None, Short}
  /\ stage \in [Core -> {"off", "load", "create", "write", "listen", "up"}]
  /\ \A p \in Core : token[p] # None <=> stage[p] \notin {"off", "load"}

(***************************************************************************)
(* What the user copies from the file lets him in (docs/production.md:11): *)
(* a Core that is up has a whole token, and if that is not from the        *)
(* environment it is the one in the file, whichever starts, failures and   *)
(* deaths of another Core came before.  Two first starts at a time are     *)
(* excepted: there the one that is up may have lost the file to one that   *)
(* then found the port taken (token.go:25-40, main.go:28-41).              *)
(***************************************************************************)
TokenOnFile ==
  \A p \in Core : stage[p] = "up" =>
    /\ token[p] \in Token \cup {Given}
    /\ token[p] = Given \/ token[p] = file \/ unseen

(***************************************************************************)
(* A pairing outlives every Core: a whole token in the file is never       *)
(* replaced or cut short, unless a start had not seen it (token.go:25-31). *)
(***************************************************************************)
TokenKept == [][(file \in Token /\ ~unseen) => file' = file]_cvars
=============================================================================
