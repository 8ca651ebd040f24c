---------------------------- MODULE EwController ----------------------------
(***************************************************************************)
(* ew_controller: a window with the modules of startstop's last status.    *)
(* The user selects one and presses Stop, Restart or Start; a modal        *)
(* question names the module, and while it is open statuses go on coming   *)
(* in and rebuild the table the answer is then taken from.                 *)
(*                                                                         *)
(* Composed with startstop, with modules that die, and with others that    *)
(* ask for restarts (statmgr, another operator).                           *)
(***************************************************************************)
EXTENDS StartStop, SequencesExt

CONSTANTS
  MaxOrders,  \* bound: restarts others ask for, and reconfigures
  MaxDeaths,  \* bound: processes that end without being asked to
  MaxAsked,   \* bound: questions the user is asked
  MaxUnread   \* bound: statuses that wait when one more is asked for

ASSUME ControllerAssumption ==
  /\ {"startstop", "ew_controller"} \subseteq Readers
  /\ MaxOrders \in Nat /\ MaxDeaths \in Nat /\ MaxAsked \in Nat
  /\ MaxUnread \in Nat

VARIABLES
  mods,    \* g_mods, g_nmods: the rows of the table
  sel,     \* g_sel_idx: the row selected, 0 for none
  selPid,  \* g_sel_pid
  dlg,     \* the question that is open: what it asks, of which module;
           \* history: whether its row was shifted while it was open
  sent,    \* history: the last answer with yes, and the pid it was sent with
  used     \* counts of what MaxOrders, MaxDeaths and MaxAsked bound

ewVars == <<mods, sel, selPid, dlg, sent, used>>

vars == <<proc, owner, flag, inbox, ssVars, ewVars>>

None == [kind |-> "none", name |-> 1, pid |-> 0, shifted |-> FALSE]

Init ==
  /\ proc = [p \in Pids |-> "none"]
  /\ owner = [p \in Pids |-> 1]
  /\ flag = FALSE
  /\ inbox = [reader \in Readers |-> [r \in Rings |-> <<>>]]
  /\ SsInit
  /\ mods = <<>> /\ sel = 0 /\ selPid = -1
  /\ dlg = None /\ sent = None
  /\ used = [orders |-> 0, deaths |-> 0, asked |-> 0]

Kinds == {"none", "stop", "restart"}

Question == [kind : Kinds, name : Children, pid : PidValues, shifted : BOOLEAN]

(* Types: the index of the selected row never leaves the table, however it *)
(* shrinks or grows while a row is selected (g_sel_idx).                   *)
TypeOK ==
  /\ RingsTypeOK /\ SsTypeOK
  /\ mods \in Seq(Row) /\ sel \in 0 .. Len(mods) /\ selPid \in PidValues
  /\ dlg \in Question /\ sent \in Question
  /\ used \in [orders : 0 .. MaxOrders, deaths : 0 .. MaxDeaths,
               asked : 0 .. MaxAsked]

-----------------------------------------------------------------------------
(* The window.                                                             *)

Asking == dlg # None

(* on_poll: pedir_estado; bound: one request that startstop has not got.   *)
PollStatus ==
  /\ \A m \in Unread("startstop") : m.type # "reqstatus"
  /\ Len(inbox["ew_controller"][OpRing]) <= MaxUnread
  /\ inbox' = Put(inbox, OpRing, [type |-> "reqstatus"])
  /\ UNCHANGED <<proc, owner, flag, ssVars, ewVars>>

(* parse_status leaves out rows without a pid.                             *)
Parsed_Alive(rows) ==   \* mutant: and those that are not alive
  LET upTo[k \in 0 .. Len(rows)] ==
        IF k = 0 THEN <<>>
        ELSE IF rows[k].pid > 0 /\ rows[k].word = "Alive"
          THEN Append(upTo[k - 1], rows[k]) ELSE upTo[k - 1]
  IN upTo[Len(rows)]

Parsed(rows) ==
  LET upTo[k \in 0 .. Len(rows)] ==
        IF k = 0 THEN <<>>
        ELSE IF rows[k].pid > 0
          THEN Append(upTo[k - 1], rows[k]) ELSE upTo[k - 1]
  IN upTo[Len(rows)]

FirstWith_LoopEnd(table, pid) ==   \* mutant: the loop variable, found or not
  IF \E k \in DOMAIN table : table[k].pid = pid
    THEN SelectInSeq(table, LAMBDA row : row.pid = pid)
    ELSE Len(table) + 1

FirstWith(table, pid) ==
  SelectInSeq(table, LAMBDA row : row.pid = pid)

(* poblar_listas: what is selected is looked up in the new table, at the   *)
(* index it had in the old one; its pid is then searched in the new one.   *)
Intent_OldPid(table) == selPid   \* mutant: the pid it had is looked for

Intent(table) == IF sel \in DOMAIN table THEN table[sel].pid ELSE selPid

(* The place of the module an open question names is another one's, or is  *)
(* gone.                                                                   *)
Shifted(table) ==
  Asking /\ (sel \notin DOMAIN table \/ table[sel].name # dlg.name)

(* on_read; a question that is open does not stop it.                      *)
Read ==
  /\ Available("ew_controller", OpRing)
  /\ LET table == Parsed(Next1("ew_controller", OpRing).rows) IN
       /\ mods' = table
       /\ selPid' = Intent(table)
       /\ sel' = FirstWith(table, Intent(table))
       /\ dlg' = [dlg EXCEPT !.shifted = @ \/ Shifted(table)]
  /\ inbox' = Got("ew_controller", OpRing)
  /\ UNCHANGED <<proc, owner, flag, ssVars, sent, used>>

(* on_row_selected; 0: no row is selected any more.                        *)
Select(k) ==
  /\ ~Asking
  /\ IF k = 0 THEN sel' = 0 /\ UNCHANGED selPid
     ELSE /\ sel' = FirstWith(mods, mods[k].pid)
          /\ selPid' = mods[k].pid
  /\ UNCHANGED <<proc, owner, flag, inbox, ssVars, mods, dlg, sent, used>>

(* aplicar_botones: Stop for a module that is alive, Restart always, Start *)
(* (which asks for a restart too) for one that is not.                     *)
Sensitive(kind, word) == kind = "stop" => word = "Alive"

Press(kind) ==
  /\ ~Asking /\ used.asked < MaxAsked
  /\ sel # 0 /\ Sensitive(kind, mods[sel].word)
  /\ dlg' = [kind |-> kind, name |-> mods[sel].name, pid |-> mods[sel].pid,
             shifted |-> FALSE]
  /\ used' = [used EXCEPT !.asked = @ + 1]
  /\ UNCHANGED <<proc, owner, flag, inbox, ssVars, mods, sel, selPid, sent>>

No ==
  /\ Asking /\ dlg' = None
  /\ UNCHANGED <<proc, owner, flag, inbox, ssVars, mods, sel, selPid, sent,
                 used>>

(* on_btn_stop, on_btn_restart, on_btn_start after the answer: the pid is  *)
(* read from the table again; with no row selected, from outside of it.    *)
PidsSent == IF sel = 0 THEN PidValues ELSE {mods[sel].pid}

Yes ==
  /\ Asking /\ dlg' = None
  /\ \E pid \in PidsSent :
       /\ sent' = [dlg EXCEPT !.pid = pid]
       /\ inbox' = Put(Put(inbox, OpRing, [type |-> dlg.kind, pid |-> pid]),
                       OpRing, [type |-> "reqstatus"])
  /\ UNCHANGED <<proc, owner, flag, ssVars, mods, sel, selPid, used>>

-----------------------------------------------------------------------------
(* Everybody else.                                                         *)

Others(m) ==
  /\ used.orders < MaxOrders
  /\ used' = [used EXCEPT !.orders = @ + 1]
  /\ inbox' = Put(inbox, OpRing, m)
  /\ UNCHANGED <<proc, owner, flag, ssVars, mods, sel, selPid, dlg, sent>>

Die(p) ==
  /\ used.deaths < MaxDeaths
  /\ used' = [used EXCEPT !.deaths = @ + 1]
  /\ proc[p] = "running"
  /\ proc' = [proc EXCEPT ![p] = "zombie"]
  /\ UNCHANGED <<owner, flag, inbox, ssVars, mods, sel, selPid, dlg, sent>>

StartStopStep == SsStep /\ UNCHANGED ewVars

Next ==
  \/ StartStopStep
  \/ PollStatus \/ Read \/ No \/ Yes
  \/ \E k \in 0 .. Len(mods) : Select(k)
  \/ \E kind \in {"stop", "restart"} : Press(kind)
  \/ \E i \in Entries : Others([type |-> "restart", pid |-> child[i].pid])
  \/ Others([type |-> "reconfig"])
  \/ \E p \in Pids : Die(p)

Spec == Init /\ [][Next]_vars

(* startstop loops for ever.                                               *)
FairSpec == Spec /\ WF_vars(StartStopStep)

-----------------------------------------------------------------------------
(* What is sent on yes is the pid of a process of the module the question  *)
(* named ("keep the target module (by PID) across the refresh").  Not      *)
(* kept: a failed fork shifts the rows.                                    *)
NamedIsMeant ==
  sent # None => sent.pid \in Pids /\ owner[sent.pid] = sent.name

(* It is, though the table was rebuilt and others restarted the module     *)
(* while the question was open, unless a row came or went above the        *)
(* module's, or its own went: a fork failed, or succeeded again.           *)
NamedUnlessShifted == ~sent.shifted => NamedIsMeant

-----------------------------------------------------------------------------
(* bound: startstop would fork one process more                            *)
OutOfPids == ss.pc \in {"start", "spawn", "fork"} /\ next > MaxPid

Outstanding ==
  /\ sent.pid \in Pids
  /\ \/ sent.kind = "stop" /\ proc[sent.pid] = "running"
     \/ sent.kind = "restart" /\ child[sent.name].pid = sent.pid

(* An answer is carried out: the process it named ends, and another one    *)
(* takes its place in child[] when a restart was asked for, whatever       *)
(* statmgr, other operators and deaths do to that module in between.       *)
Obeyed == Outstanding ~> ~Outstanding \/ OutOfPids
=============================================================================
