--------------------------- MODULE DeliveryProofs ---------------------------
(***************************************************************************)
(* What reaches a pane, and what is said of it, for actions of any length, *)
(* screens of any height, any limit of the capture and any disturbance.    *)
(***************************************************************************)
EXTENDS Delivery, TLAPS

AskRecords == Checks \cup {"read", "judge", "send", "refused"}

-----------------------------------------------------------------------------
(* The plans, written out.                                                  *)

\* A tmux input: its last identity check comes right before it is sent.
LEMMA TmuxPlan == TmuxInput = <<"id", "id", "read", "id", "judge", "id", "send">>
<1>1. TmuxInput \in Seq(AskRecords) /\ Len(TmuxInput) = 7
  BY DEF AskRecords, Checks, TmuxInput, require_safe, capture_mux_target, tmux_capture_tail
<1>2. /\ TmuxInput[1] = "id" /\ TmuxInput[2] = "id" /\ TmuxInput[3] = "read"
      /\ TmuxInput[4] = "id" /\ TmuxInput[5] = "judge" /\ TmuxInput[6] = "id"
      /\ TmuxInput[7] = "send"
  BY DEF TmuxInput, require_safe, capture_mux_target, tmux_capture_tail
<1> QED BY <1>1, <1>2

\* The composer check of the bridge, and of a native server.
LEMMA ComposerPlans ==
    /\ require_safe("bridge") = <<"id", "read", "id", "judge">>
    /\ require_safe("native") = <<"id", "read", "judge">>
<1>1. /\ capture_mux_target("bridge") = <<"id", "read", "id">>
      /\ capture_mux_target("native") = <<"id", "read">>
  BY DEF capture_mux_target, capture_native, herdr_capture_tail
<1> DEFINE b == <<"id", "read", "id">> \o <<"judge">>
           n == <<"id", "read">> \o <<"judge">>
<1>2. b \in Seq(AskRecords) /\ Len(b) = 4 /\ b[1] = "id" /\ b[2] = "read" /\ b[3] = "id" /\ b[4] = "judge"
  BY DEF AskRecords, Checks
<1>3. n \in Seq(AskRecords) /\ Len(n) = 3 /\ n[1] = "id" /\ n[2] = "read" /\ n[3] = "judge"
  BY DEF AskRecords, Checks
<1>4. b = <<"id", "read", "id", "judge">> /\ n = <<"id", "read", "judge">>
  <2> HIDE DEF b, n
  <2> QED BY <1>2, <1>3
<1> QED BY <1>1, <1>4 DEF require_safe

\* An input on the bridge: the checks twice, the request, the checks again.
LEMMA BridgePlan ==
    BridgeInput("bridge") = <<"id", "id", "read", "id", "judge", "id", "id", "read", "id", "judge",
                              "send", "id", "id", "read", "id", "judge">>
<1> DEFINE c == <<"id">> \o <<"id", "read", "id", "judge">>
           s == <<"id", "id", "read", "id", "judge">> \o <<"id", "id", "read", "id", "judge">>
                \o (<<"send">> \o <<"id", "id", "read", "id", "judge">>)
<1>1. c \in Seq(AskRecords) /\ Len(c) = 5 /\ c[1] = "id" /\ c[2] = "id" /\ c[3] = "read" /\ c[4] = "id"
      /\ c[5] = "judge"
  BY DEF AskRecords, Checks
<1>2. c = <<"id", "id", "read", "id", "judge">>
  <2> HIDE DEF c
  <2> QED BY <1>1
<1>3. s \in Seq(AskRecords) /\ Len(s) = 16
  BY DEF AskRecords, Checks
<1>4. /\ s[1] = "id" /\ s[2] = "id" /\ s[3] = "read" /\ s[4] = "id" /\ s[5] = "judge"
      /\ s[6] = "id" /\ s[7] = "id" /\ s[8] = "read" /\ s[9] = "id" /\ s[10] = "judge"
  OBVIOUS
<1>5. /\ s[11] = "send"
      /\ s[12] = "id" /\ s[13] = "id" /\ s[14] = "read" /\ s[15] = "id" /\ s[16] = "judge"
  OBVIOUS
<1>6. BridgeInput("bridge") = c \o c \o (<<"send">> \o c)
  BY ComposerPlans DEF BridgeInput
<1>7. BridgeInput("bridge") = s
  BY <1>2, <1>6
<1> HIDE DEF s
<1> QED BY <1>3, <1>4, <1>5, <1>7

\* The same request to a native server, which refuses it.
LEMMA NativePlan ==
    BridgeInput("native") = <<"id", "id", "read", "judge", "id", "id", "read", "judge", "refused">>
<1> DEFINE c == <<"id">> \o <<"id", "read", "judge">>
           s == <<"id", "id", "read", "judge">> \o <<"id", "id", "read", "judge">> \o <<"refused">>
<1>1. c \in Seq(AskRecords) /\ Len(c) = 4 /\ c[1] = "id" /\ c[2] = "id" /\ c[3] = "read" /\ c[4] = "judge"
  BY DEF AskRecords, Checks
<1>2. c = <<"id", "id", "read", "judge">>
  <2> HIDE DEF c
  <2> QED BY <1>1
<1>3. s \in Seq(AskRecords) /\ Len(s) = 9
  BY DEF AskRecords, Checks
<1>4. /\ s[1] = "id" /\ s[2] = "id" /\ s[3] = "read" /\ s[4] = "judge"
      /\ s[5] = "id" /\ s[6] = "id" /\ s[7] = "read" /\ s[8] = "judge" /\ s[9] = "refused"
  OBVIOUS
<1>5. BridgeInput("native") = c \o c \o <<"refused">>
  BY ComposerPlans DEF BridgeInput
<1>6. BridgeInput("native") = s
  BY <1>2, <1>5
<1> HIDE DEF s
<1> QED BY <1>3, <1>4, <1>6

\* A native submission.
LEMMA SubmitPlan ==
    submit_native = <<"pin", "id", "read", "judge", "same", "id", "read", "judge", "send">>
<1> DEFINE s == <<"pin">> \o <<"id", "read", "judge">> \o <<"same">> \o <<"id", "read", "judge">>
                \o <<"send">>
<1>1. s \in Seq(AskRecords) /\ Len(s) = 9
  BY DEF AskRecords, Checks
<1>2. /\ s[1] = "pin" /\ s[2] = "id" /\ s[3] = "read" /\ s[4] = "judge" /\ s[5] = "same"
      /\ s[6] = "id" /\ s[7] = "read" /\ s[8] = "judge" /\ s[9] = "send"
  OBVIOUS
<1>3. submit_native = s
  BY ComposerPlans DEF submit_native
<1> HIDE DEF s
<1> QED BY <1>1, <1>2, <1>3

-----------------------------------------------------------------------------
(* What the properties need to know of a plan.                              *)

\* Every input comes after an identity check, and after a read that was judged,
\* within its window.
Guarded(w, P) ==
    \A s \in 1..Len(P) : P[s] = "send" =>
       /\ s > IdentityWindow[w] /\ P[s - IdentityWindow[w]] \in Checks
       /\ s > ComposerWindow[w] /\ P[s - ComposerWindow[w]] = "read"
       /\ \E j \in 1..Len(P) : s - ComposerWindow[w] < j /\ j < s /\ P[j] = "judge"
\* One input at most; and one, or a refusal at the end.
OneSend(P) == \A s, t \in 1..Len(P) : P[s] = "send" /\ P[t] = "send" => s = t
Types1(P) == P[Len(P)] = "refused" \/ \E s \in 1..Len(P) : P[s] = "send"
NoSend(P) == \A s \in 1..Len(P) : P[s] # "send"
\* Lines are followed by an identity check.
Confirmed(P) == \A s \in 1..Len(P) : P[s] = "read" => s < Len(P) /\ P[s + 1] = "id"

\* The windows, wire by wire.
LEMMA Windows ==
    /\ IdentityWindow["tmux"] = 1 /\ IdentityWindow["bridge"] = 2 /\ IdentityWindow["native"] = 3
    /\ ComposerWindow["tmux"] = 4 /\ ComposerWindow["bridge"] = 3 /\ ComposerWindow["native"] = 2
BY DEF IdentityWindow, ComposerWindow, Wires

\* All of this holds of an input on tmux,
LEMMA TmuxFacts ==
    ASSUME NEW P, P = <<"id", "id", "read", "id", "judge", "id", "send">>
    PROVE  /\ P \in Seq(AskRecords) /\ Len(P) >= 1 /\ OneSend(P) /\ Types1(P) /\ Confirmed(P)
           /\ Guarded("tmux", P)
<1>0. P \in Seq(AskRecords) /\ Len(P) = 7
  BY DEF AskRecords, Checks
<1>1. P[1] = "id" /\ P[2] = "id" /\ P[3] = "read" /\ P[4] = "id" /\ P[5] = "judge" /\ P[6] = "id" /\ P[7] = "send"
  OBVIOUS
<1>2. \A i \in 1..7 : i \in {1, 2, 3, 4, 5, 6, 7}
  OBVIOUS
<1>3. OneSend(P) /\ Types1(P)
  BY <1>0, <1>1, <1>2 DEF OneSend, Types1
<1>4. Confirmed(P)
  BY <1>0, <1>1, <1>2 DEF Confirmed
<1>5. Guarded("tmux", P)
  BY <1>0, <1>1, <1>2, Windows DEF Guarded, Checks
<1> QED BY <1>0, <1>3, <1>4, <1>5

\* on the bridge,
LEMMA BridgeFacts ==
    ASSUME NEW P, P = <<"id", "id", "read", "id", "judge", "id", "id", "read", "id", "judge",
                        "send", "id", "id", "read", "id", "judge">>
    PROVE  /\ P \in Seq(AskRecords) /\ Len(P) >= 1 /\ OneSend(P) /\ Types1(P) /\ Confirmed(P)
           /\ Guarded("bridge", P)
<1>0. P \in Seq(AskRecords) /\ Len(P) = 16
  BY DEF AskRecords, Checks
<1>1. /\ P[1] = "id" /\ P[2] = "id" /\ P[3] = "read" /\ P[4] = "id" /\ P[5] = "judge"
      /\ P[6] = "id" /\ P[7] = "id" /\ P[8] = "read" /\ P[9] = "id" /\ P[10] = "judge"
      /\ P[11] = "send" /\ P[12] = "id" /\ P[13] = "id" /\ P[14] = "read" /\ P[15] = "id"
      /\ P[16] = "judge"
  OBVIOUS
<1>2. \A i \in 1..16 : i \in {1, 2, 3, 4, 5, 6, 7, 8, 9, 10, 11, 12, 13, 14, 15, 16}
  OBVIOUS
<1>3. OneSend(P) /\ Types1(P)
  BY <1>0, <1>1, <1>2 DEF OneSend, Types1
<1>4. Confirmed(P)
  BY <1>0, <1>1, <1>2 DEF Confirmed
<1>5. Guarded("bridge", P)
  BY <1>0, <1>1, <1>2, Windows DEF Guarded, Checks
<1> QED BY <1>0, <1>3, <1>4, <1>5

\* and on a native server,
LEMMA SubmitFacts ==
    ASSUME NEW P, P = <<"pin", "id", "read", "judge", "same", "id", "read", "judge", "send">>
    PROVE  P \in Seq(AskRecords) /\ Len(P) >= 1 /\ OneSend(P) /\ Types1(P) /\ Guarded("native", P)
<1>1. P \in Seq(AskRecords) /\ Len(P) = 9
  BY DEF AskRecords, Checks
<1>2. /\ P[1] = "pin" /\ P[2] = "id" /\ P[3] = "read" /\ P[4] = "judge" /\ P[5] = "same"
      /\ P[6] = "id" /\ P[7] = "read" /\ P[8] = "judge" /\ P[9] = "send"
  OBVIOUS
<1>3. \A i \in 1..9 : i \in {1, 2, 3, 4, 5, 6, 7, 8, 9}
  OBVIOUS
<1>4. OneSend(P) /\ Types1(P)
  BY <1>1, <1>2, <1>3 DEF OneSend, Types1
<1>5. Guarded("native", P)
  BY <1>1, <1>2, <1>3, Windows DEF Guarded, Checks
<1> QED BY <1>1, <1>4, <1>5

\* which refuses the bridge's request;
LEMMA RefusedFacts ==
    ASSUME NEW P, P = <<"id", "id", "read", "judge", "id", "id", "read", "judge", "refused">>
    PROVE  P \in Seq(AskRecords) /\ Len(P) >= 1 /\ NoSend(P) /\ Types1(P)
<1>1. P \in Seq(AskRecords) /\ Len(P) = 9
  BY DEF AskRecords, Checks
<1>2. /\ P[1] = "id" /\ P[2] = "id" /\ P[3] = "read" /\ P[4] = "judge" /\ P[5] = "id"
      /\ P[6] = "id" /\ P[7] = "read" /\ P[8] = "judge" /\ P[9] = "refused"
  OBVIOUS
<1>3. \A i \in 1..9 : i \in {1, 2, 3, 4, 5, 6, 7, 8, 9}
  OBVIOUS
<1> QED BY <1>1, <1>2, <1>3 DEF NoSend, Types1

\* a check, a capture and a refusal type nothing.
LEMMA ShortFacts ==
    /\ \A P \in {<<"id">>, <<"id", "read", "id">>, <<"id", "read">>, <<"id", "refused">>, <<"refused">>} :
         P \in Seq(AskRecords) /\ Len(P) >= 1 /\ NoSend(P)
    /\ \A P \in {<<"id">>, <<"id", "read", "id">>, <<"refused">>} : Confirmed(P)
    /\ Types1(<<"refused">>)
<1>1. <<"id">> \in Seq(AskRecords) /\ Len(<<"id">>) >= 1 /\ NoSend(<<"id">>) /\ Confirmed(<<"id">>)
  BY DEF AskRecords, Checks, NoSend, Confirmed
<1>2. /\ <<"refused">> \in Seq(AskRecords) /\ Len(<<"refused">>) >= 1 /\ NoSend(<<"refused">>)
      /\ Confirmed(<<"refused">>) /\ Types1(<<"refused">>)
  BY DEF AskRecords, Checks, NoSend, Confirmed, Types1
<1>3. <<"id", "read">> \in Seq(AskRecords) /\ Len(<<"id", "read">>) >= 1 /\ NoSend(<<"id", "read">>)
  BY DEF AskRecords, Checks, NoSend
<1>4. <<"id", "refused">> \in Seq(AskRecords) /\ Len(<<"id", "refused">>) >= 1 /\ NoSend(<<"id", "refused">>)
  BY DEF AskRecords, Checks, NoSend
<1>5. /\ <<"id", "read", "id">> \in Seq(AskRecords) /\ Len(<<"id", "read", "id">>) >= 1
      /\ NoSend(<<"id", "read", "id">>)
  BY DEF AskRecords, Checks, NoSend
<1>6. Confirmed(<<"id", "read", "id">>)
  BY DEF Confirmed
<1> QED BY <1>1, <1>2, <1>3, <1>4, <1>5, <1>6

\* So every plan is as the properties need it.
LEMMA PlanFacts ==
    ASSUME NEW w \in Wires, NEW u \in UnitKinds
    PROVE  /\ Plan[w][u] \in Seq(AskRecords) /\ Len(Plan[w][u]) >= 1
           /\ u \in {"check", "capture"} => NoSend(Plan[w][u])
           /\ u \notin {"check", "capture"} => Types1(Plan[w][u])
           /\ OneSend(Plan[w][u]) /\ Guarded(w, Plan[w][u])
           /\ w # "native" /\ (w = "bridge" => u # "capture") => Confirmed(Plan[w][u])
<1> DEFINE P == Plan[w][u]
<1>1. P = UnitPlan(w, u)
  BY DEF Plan
<1> HIDE DEF P
<1>2. NoSend(P) => OneSend(P) /\ Guarded(w, P)
  BY DEF NoSend, OneSend, Guarded
<1> SUFFICES /\ P \in Seq(AskRecords) /\ Len(P) >= 1
             /\ u \in {"check", "capture"} => NoSend(P)
             /\ u \notin {"check", "capture"} => Types1(P)
             /\ OneSend(P) /\ Guarded(w, P)
             /\ w # "native" /\ (w = "bridge" => u # "capture") => Confirmed(P)
  BY DEF P
<1>3. CASE u = "check"
  BY <1>1, <1>2, <1>3, ShortFacts DEF UnitPlan
<1>4. CASE u = "capture"
  <2>1. P = IF w = "tmux" THEN <<"id", "read", "id">> ELSE IF w = "bridge" THEN <<"id", "read">>
            ELSE <<"id", "refused">>
    BY <1>1, <1>4 DEF UnitPlan, capture_mux_target, tmux_capture_tail
  <2> QED BY <1>2, <1>4, <2>1, ShortFacts DEF Wires
<1>5. CASE u = "submit"
  <2>1. P = IF w = "native" THEN submit_native ELSE <<"refused">>
    BY <1>1, <1>5 DEF UnitPlan
  <2>2. CASE w = "native"
    BY <1>5, <2>1, <2>2, SubmitPlan, SubmitFacts
  <2>3. CASE w # "native"
    BY <1>2, <1>5, <2>1, <2>3, ShortFacts
  <2> QED BY <2>2, <2>3
<1>6. CASE u \notin {"check", "capture", "submit"}
  <2>1. P = IF w = "tmux" THEN TmuxInput ELSE BridgeInput(w)
    BY <1>1, <1>6 DEF UnitPlan
  <2>2. CASE w = "tmux"
    BY <1>6, <2>1, <2>2, TmuxPlan, TmuxFacts
  <2>3. CASE w = "bridge"
    BY <1>6, <2>1, <2>3, BridgePlan, BridgeFacts
  <2>4. CASE w = "native"
    BY <1>2, <1>6, <2>1, <2>4, NativePlan, RefusedFacts
  <2> QED BY <2>2, <2>3, <2>4 DEF Wires
<1> QED BY <1>3, <1>4, <1>5, <1>6

-----------------------------------------------------------------------------
(* The units of an action, and the plan a call is in.                       *)

\* An action is the units it types: one text, its keys, or nothing.
LEMMA UnitFacts ==
    ASSUME NEW a \in Actions
    PROVE  /\ Units(a) \in Seq({"text", "submit"} \cup valid_key)
           /\ a.kind \in {"text", "submit"} => Len(Units(a)) = 1
           /\ a.kind = "capture" => Units(a) = <<>>
           /\ a.kind \in {"text", "submit", "keys", "capture"}
           /\ a.kind = "keys" => \A n \in 1..Len(Units(a)) : Units(a)[n] \in valid_key
<1>1. CASE a.kind \in {"text", "submit"}
  <2>1. Units(a) = <<a.kind>>
    BY <1>1 DEF Units
  <2>2. Units(a) \in Seq({"text", "submit"} \cup valid_key) /\ Len(Units(a)) = 1
    BY <1>1, <2>1
  <2> QED BY <1>1, <2>2
<1>2. CASE a.kind = "capture"
  BY <1>2 DEF Units
<1>3. CASE a.kind = "keys"
  <2>1. Units(a) = a.keys
    BY <1>3 DEF Units
  <2>2. PICK n \in 0..MaxKeys : a.keys \in [1..n -> valid_key]
    BY <1>3 DEF Actions
  <2>3. n \in Nat
    BY KeysAssumption
  <2>4. a.keys \in Seq(valid_key) /\ Len(a.keys) = n
    BY <2>2, <2>3
  <2> QED BY <1>3, <2>1, <2>4
<1>4. a.kind \in {"text", "submit", "keys", "capture"}
  BY DEF Actions
<1> QED BY <1>1, <1>2, <1>3, <1>4

\* The opening of a call types nothing; every other unit is one of its action.
LEMMA UnitAtFacts ==
    ASSUME NEW a \in Actions, NEW n \in 0..Len(Units(a))
    PROVE  /\ UnitAt(a, n) \in UnitKinds
           /\ n = 0 <=> UnitAt(a, n) \in {"check", "capture"}
           /\ UnitAt(a, n) = "capture" <=> a.kind = "capture"
<1>0. Len(Units(a)) \in Nat
  BY UnitFacts
<1>1. CASE n = 0
  BY <1>1 DEF UnitAt, UnitKinds
<1>2. CASE n > 0
  <2>1. n \in 1..Len(Units(a)) /\ UnitAt(a, n) = Units(a)[n]
    BY <1>0, <1>2 DEF UnitAt
  <2>2. Units(a)[n] \in {"text", "submit"} \cup valid_key
    BY <2>1, UnitFacts
  <2>3. a.kind # "capture"
    BY <1>0, <2>1, UnitFacts
  <2> QED BY <1>2, <2>1, <2>2, <2>3 DEF UnitKinds, valid_key
<1> QED BY <1>0, <1>1, <1>2

\* The plan of a call, at the unit it is in.
LEMMA NowFacts ==
    ASSUME DeliveryTypeOK
    PROVE  /\ PlanNow \in Seq(AskRecords) /\ Len(PlanNow) \in Nat /\ Len(PlanNow) >= 1
           /\ call.place \in 1..Len(PlanNow) /\ Step = PlanNow[call.place] /\ Step \in AskRecords
           /\ call.unit = 0 => NoSend(PlanNow)
           /\ call.unit > 0 => Types1(PlanNow)
           /\ OneSend(PlanNow) /\ Guarded(call.wire, PlanNow)
           /\ call.wire # "native" /\ (call.wire = "bridge" => call.act.kind # "capture") => Confirmed(PlanNow)
<1> DEFINE u == UnitAt(call.act, call.unit)
<1>1. call.wire \in Wires /\ call.act \in Actions /\ call.unit \in Nat /\ call.unit <= Len(Units(call.act))
      /\ call.place \in 1..Len(PlanNow)
  BY DEF DeliveryTypeOK, Calls
<1>2. Len(Units(call.act)) \in Nat
  BY <1>1, UnitFacts
<1>3. u \in UnitKinds /\ (call.unit = 0 <=> u \in {"check", "capture"}) /\ (u = "capture" <=> call.act.kind = "capture")
  BY <1>1, <1>2, UnitAtFacts
<1>4. PlanNow = Plan[call.wire][u]
  BY DEF PlanNow
<1> HIDE DEF u
<1>5. PlanNow \in Seq(AskRecords) /\ Len(PlanNow) >= 1 /\ OneSend(PlanNow) /\ Guarded(call.wire, PlanNow)
  BY <1>1, <1>3, <1>4, PlanFacts
<1>6. call.unit = 0 => NoSend(PlanNow)
  BY <1>1, <1>3, <1>4, PlanFacts
<1>7. call.unit > 0 => Types1(PlanNow)
  BY <1>1, <1>3, <1>4, PlanFacts
<1>8. call.wire # "native" /\ (call.wire = "bridge" => call.act.kind # "capture") => Confirmed(PlanNow)
  BY <1>1, <1>3, <1>4, PlanFacts
<1>9. Len(PlanNow) \in Nat /\ Step = PlanNow[call.place] /\ Step \in AskRecords
  BY <1>1, <1>5 DEF Step
<1> QED BY <1>1, <1>5, <1>6, <1>7, <1>8, <1>9

-----------------------------------------------------------------------------
(* Screens.                                                                 *)

\* The input line is a line of the screen, which drawing on keeps its shape.
LEMMA DrawnFacts ==
    ASSUME NEW s \in Seq(Lines), NEW codex \in BOOLEAN,
           IF codex THEN Len(s) >= 3 /\ s[Len(s)] = "footer" /\ s[Len(s) - 1] = "blank" ELSE Len(s) >= 1,
           NEW t \in {s, Draft(codex, s), Cleared(codex, s)}
    PROVE  /\ t \in Seq(Lines) /\ Len(t) = Len(s)
           /\ IF codex THEN Len(t) >= 3 /\ t[Len(t)] = "footer" /\ t[Len(t) - 1] = "blank" ELSE Len(t) >= 1
           /\ ~Drafted(codex, Cleared(codex, s))
<1>1. Len(s) \in Nat /\ InputLine(codex, s) \in 1..Len(s)
      /\ (codex => InputLine(codex, s) < Len(s) - 1)
  BY DEF InputLine
<1>2. "draft" \in Lines /\ "prompt" \in Lines /\ "blank" \in Lines
  BY DEF Lines
<1>3. /\ Draft(codex, s) \in Seq(Lines) /\ Len(Draft(codex, s)) = Len(s)
      /\ \A i \in 1..Len(s) : i # InputLine(codex, s) => Draft(codex, s)[i] = s[i]
  BY <1>1, <1>2 DEF Draft
<1>4. /\ Cleared(codex, s) \in Seq(Lines) /\ Len(Cleared(codex, s)) = Len(s)
      /\ \A i \in 1..Len(s) : i # InputLine(codex, s) => Cleared(codex, s)[i] = s[i]
  BY <1>1, <1>2 DEF Cleared
<1>5. ~Drafted(codex, Cleared(codex, s))
  <2>1. InputLine(codex, Cleared(codex, s)) = InputLine(codex, s)
    BY <1>4 DEF InputLine
  <2>2. Cleared(codex, s)[InputLine(codex, s)] # "draft"
    BY <1>1 DEF Cleared
  <2> QED BY <2>1, <2>2 DEF Drafted
<1> QED BY <1>1, <1>3, <1>4, <1>5

\* What is captured of it: the whole, or what tmux cuts off.
LEMMA CapturedFacts ==
    ASSUME NEW s \in Seq(Lines), Len(s) >= 1, NEW w \in Wires
    PROVE  /\ Captured(w, s) \in Seq(Lines) \ {<<>>}
           /\ Len(Captured(w, s)) < Len(s) <=> w = "tmux" /\ Len(s) > Cap
           /\ ~(Len(Captured(w, s)) < Len(s)) => Captured(w, s) = s
<1>1. Cap \in Nat /\ Cap >= 1 /\ Len(s) \in Nat
  BY CapAssumption
<1>2. CASE w = "tmux" /\ Len(s) > Cap
  <2>1. Captured(w, s) = SubSeq(s, 1, Cap)
    BY <1>2 DEF Captured
  <2>2. SubSeq(s, 1, Cap) \in Seq(Lines) /\ Len(SubSeq(s, 1, Cap)) = Cap
    BY <1>1, <1>2
  <2> QED BY <1>1, <1>2, <2>1, <2>2
<1>3. CASE ~(w = "tmux" /\ Len(s) > Cap)
  BY <1>1, <1>3 DEF Captured
<1> QED BY <1>2, <1>3

\* A draft on a screen that is read whole is not taken for a free composer.
LEMMA DraftIsSeen ==
    ASSUME NEW s \in Seq(Lines), NEW codex \in BOOLEAN, NEW w \in Wires,
           IF codex THEN Len(s) >= 3 /\ s[Len(s)] = "footer" /\ s[Len(s) - 1] = "blank" ELSE Len(s) >= 1,
           Drafted(codex, s)
    PROVE  composer_state(codex, w, s) # "safe"
<1>1. CASE codex /\ w = "native"
  <2> DEFINE prompts == {i \in DOMAIN s : s[i] \in {"prompt", "draft"}}
             p == CHOOSE i \in prompts : \A j \in prompts : j <= i
             n == Len(s) - 2
  <2>1. n \in prompts /\ s[n] = "draft" /\ n \in Nat
    BY <1>1 DEF Drafted, InputLine
  <2>2. \A j \in prompts : j <= n
    BY <1>1
  <2>3. p \in prompts /\ \A j \in prompts : j <= p
    BY <2>1, <2>2
  <2>4. p = n
    BY <2>1, <2>2, <2>3
  <2>5. s[p] # "prompt" /\ prompts # {}
    BY <2>1, <2>4
  <2>6. state_from_recent(s) # "safe"
    BY <2>5 DEF state_from_recent
  <2> QED BY <1>1, <2>6 DEF composer_state
<1>2. CASE ~(codex /\ w = "native")
  BY <1>2 DEF composer_state, Blank, Drafted, InputLine
<1> QED BY <1>1, <1>2

-----------------------------------------------------------------------------
(* A call goes on, or ends.                                                 *)

\* What a request changes of the call, apart from its place.
Like(c) ==
    /\ c \in Calls /\ c.st = "running" /\ c.out = "none"
    /\ c.wire = call.wire /\ c.codex = call.codex /\ c.act = call.act /\ c.unit = call.unit
    /\ c.place = call.place /\ c.at = call.at

NextPlace ==
    /\ call'.st = "running" /\ call'.out = "none" /\ call'.unit = call.unit
    /\ call'.place = call.place + 1 /\ call'.at = call.at + 1
    /\ call.place < Len(PlanNow) /\ PlanNow' = PlanNow
NextUnit ==
    /\ call'.st = "running" /\ call'.out = "none" /\ call'.unit = call.unit + 1
    /\ call'.place = 1 /\ call'.at = call.at + 1
    /\ call.place = Len(PlanNow) /\ call.unit < Len(Units(call.act))
Finished ==
    /\ call'.st = "done" /\ call'.unit = call.unit /\ call'.place = call.place /\ call'.at = call.at
    /\ call'.out = (IF call.act.kind = "capture" THEN "captured" ELSE "committed")
    /\ call.place = Len(PlanNow) /\ call.unit = Len(Units(call.act)) /\ PlanNow' = PlanNow

\* A request that is answered leads to the next one of the plan, to the plan of the
\* next unit, or to the end.
LEMMA GoesFacts ==
    ASSUME DeliveryTypeOK, NEW c, Like(c), Goes(c), pane' \in Panes
    PROVE  /\ DeliveryTypeOK'
           /\ call'.wire = call.wire /\ call'.codex = call.codex /\ call'.act = call.act
           /\ call'.seen = c.seen /\ call'.own = c.own
           /\ NextPlace \/ NextUnit \/ Finished
<1>0. /\ c \in Calls /\ c.st = "running" /\ c.out = "none"
      /\ c.wire = call.wire /\ c.codex = call.codex /\ c.act = call.act /\ c.unit = call.unit
      /\ c.place = call.place /\ c.at = call.at
  BY DEF Like
<1>1. /\ call \in Calls /\ call.wire \in Wires /\ call.act \in Actions /\ call.unit \in Nat
      /\ call.unit <= Len(Units(call.act)) /\ call.place \in Nat /\ call.at \in Nat \ {0}
      /\ Len(Units(call.act)) \in Nat
  BY UnitFacts DEF DeliveryTypeOK, Calls
<1>2. Len(PlanNow) \in Nat /\ call.place \in 1..Len(PlanNow)
  BY NowFacts
<1>3. PlanNow' = Plan[call'.wire][UnitAt(call'.act, call'.unit)]
  BY DEF PlanNow
<1>4. PlanNow = Plan[call.wire][UnitAt(call.act, call.unit)]
  BY DEF PlanNow
<1>5. CASE call.place < Len(PlanNow)
  <2>1. call' = [c EXCEPT !.place = @ + 1, !.at = @ + 1]
    BY <1>1, <1>2, <1>5 DEF Goes
  <2>2. /\ call' \in Calls /\ call'.wire = call.wire /\ call'.codex = call.codex /\ call'.act = call.act
        /\ call'.seen = c.seen /\ call'.own = c.own /\ call'.st = "running" /\ call'.out = "none"
        /\ call'.unit = call.unit /\ call'.place = call.place + 1 /\ call'.at = call.at + 1
    <3>1. c.at + 1 \in Nat \ {0} /\ c.unit + 1 \in Nat /\ c.place + 1 \in Nat /\ 1 \in Nat
      BY <1>0, <1>1
    <3>2. /\ call'.wire = call.wire /\ call'.codex = call.codex /\ call'.act = call.act
          /\ call'.seen = c.seen /\ call'.own = c.own /\ call'.st = "running" /\ call'.out = "none"
        /\ call'.unit = call.unit /\ call'.place = call.place + 1 /\ call'.at = call.at + 1
      BY <1>0, <2>1 DEF Calls
    <3>3. call' \in Calls
      BY <1>0, <2>1, <3>1 DEF Calls
    <3> QED BY <3>2, <3>3
  <2>3. PlanNow' = PlanNow
    BY <1>3, <1>4, <2>2
  <2>4. DeliveryTypeOK'
    BY <1>1, <1>2, <1>5, <2>2, <2>3 DEF DeliveryTypeOK
  <2> QED BY <1>5, <2>2, <2>3, <2>4 DEF NextPlace
<1>6. CASE ~(call.place < Len(PlanNow)) /\ call.unit < Len(Units(call.act))
  <2>1. call' = [c EXCEPT !.unit = @ + 1, !.place = 1, !.at = @ + 1]
    BY <1>1, <1>2, <1>6 DEF Goes
  <2>2. /\ call' \in Calls /\ call'.wire = call.wire /\ call'.codex = call.codex /\ call'.act = call.act
        /\ call'.seen = c.seen /\ call'.own = c.own /\ call'.st = "running" /\ call'.out = "none"
        /\ call'.unit = call.unit + 1 /\ call'.place = 1 /\ call'.at = call.at + 1
    <3>1. c.at + 1 \in Nat \ {0} /\ c.unit + 1 \in Nat /\ c.place + 1 \in Nat /\ 1 \in Nat
      BY <1>0, <1>1
    <3>2. /\ call'.wire = call.wire /\ call'.codex = call.codex /\ call'.act = call.act
          /\ call'.seen = c.seen /\ call'.own = c.own /\ call'.st = "running" /\ call'.out = "none"
        /\ call'.unit = call.unit + 1 /\ call'.place = 1 /\ call'.at = call.at + 1
      BY <1>0, <2>1 DEF Calls
    <3>3. call' \in Calls
      BY <1>0, <2>1, <3>1 DEF Calls
    <3> QED BY <3>2, <3>3
  <2>3. UnitAt(call.act, call.unit + 1) \in UnitKinds
    BY <1>1, <1>6, UnitAtFacts
  <2>4. PlanNow' = Plan[call.wire][UnitAt(call.act, call.unit + 1)]
    BY <1>3, <2>2
  <2>5. PlanNow' \in Seq(AskRecords) /\ Len(PlanNow') >= 1
    BY <1>1, <2>3, <2>4, PlanFacts
  <2>6. DeliveryTypeOK'
    BY <1>1, <1>6, <2>2, <2>5 DEF DeliveryTypeOK
  <2> QED BY <1>1, <1>2, <1>6, <2>2, <2>6 DEF NextUnit
<1>7. CASE ~(call.place < Len(PlanNow)) /\ ~(call.unit < Len(Units(call.act)))
  <2>1. call' = [c EXCEPT !.st = "done", !.out = IF c.act.kind = "capture" THEN "captured" ELSE "committed"]
    BY <1>1, <1>2, <1>7 DEF Goes
  <2>2. /\ call' \in Calls /\ call'.wire = call.wire /\ call'.codex = call.codex /\ call'.act = call.act
        /\ call'.seen = c.seen /\ call'.own = c.own /\ call'.st = "done"
        /\ call'.out = (IF call.act.kind = "capture" THEN "captured" ELSE "committed")
        /\ call'.unit = call.unit /\ call'.place = call.place /\ call'.at = call.at
    BY <1>0, <1>1, <2>1 DEF Calls
  <2>3. PlanNow' = PlanNow
    BY <1>3, <1>4, <2>2
  <2>4. DeliveryTypeOK'
    BY <1>1, <1>2, <2>2, <2>3 DEF DeliveryTypeOK
  <2> QED BY <1>1, <1>2, <1>7, <2>2, <2>3, <2>4 DEF Finished
<1> QED BY <1>5, <1>6, <1>7

-----------------------------------------------------------------------------
(* What an input does to the pane, and what was checked before it.          *)

\* What a request leaves of the pane: its process, when it changed and when the
\* human last wrote, and the shape of its screen.
Kept ==
    /\ pane' \in Panes /\ pane'.mine = pane.mine
    /\ pane'.swapped = pane.swapped /\ pane'.drafted = pane.drafted
    /\ Len(pane'.screen) = Len(pane.screen)
    /\ IF call.codex THEN /\ Len(pane'.screen) >= 3 /\ pane'.screen[Len(pane'.screen)] = "footer"
                          /\ pane'.screen[Len(pane'.screen) - 1] = "blank"
       ELSE Len(pane'.screen) >= 1
\* An input as it is recorded.
Input(u) ==
    /\ u \in Typings /\ u.unit = Units(call.act)[call.unit] /\ u.mine = pane.mine /\ u.at = call.at
    /\ u.clear = ~Drafted(call.codex, pane.screen)
    /\ pane'.typed = Append(pane.typed, u)

\* The facts of a running call that its requests rest on.
LEMMA RunningFacts ==
    ASSUME DeliveryInv, call.st = "running"
    PROVE  /\ DeliveryTypeOK /\ call \in Calls /\ pane \in Panes
           /\ call.wire \in Wires /\ call.codex \in BOOLEAN /\ call.act \in Actions
           /\ call.unit \in Nat /\ call.place \in Nat /\ call.at \in Nat \ {0} /\ call.out = "none"
           /\ call.unit <= Len(Units(call.act)) /\ Len(Units(call.act)) \in Nat
           /\ pane.mine \in BOOLEAN /\ pane.swapped \in Nat /\ pane.drafted \in Nat
           /\ pane.screen \in Seq(Lines) /\ Len(pane.screen) \in Nat /\ Len(pane.screen) >= 1
           /\ pane.typed \in Seq(Typings) /\ Len(pane.typed) \in Nat
           /\ call.seen \in Seq(Lines) \ {<<>>} /\ call.own \in BOOLEAN
<1>1. DeliveryTypeOK /\ call \in Calls /\ pane \in Panes /\ call.unit <= Len(Units(call.act))
  BY DEF DeliveryInv, DeliveryTypeOK
<1>2. /\ call.wire \in Wires /\ call.codex \in BOOLEAN /\ call.act \in Actions
      /\ call.unit \in Nat /\ call.place \in Nat /\ call.at \in Nat \ {0}
      /\ call.seen \in Seq(Lines) \ {<<>>} /\ call.own \in BOOLEAN
  BY <1>1 DEF Calls
<1>3. /\ pane.mine \in BOOLEAN /\ pane.swapped \in Nat /\ pane.drafted \in Nat
      /\ pane.screen \in Seq(Lines) /\ pane.typed \in Seq(Typings)
  BY <1>1 DEF Panes
<1>4. Len(pane.screen) \in Nat /\ Len(pane.typed) \in Nat /\ Len(Units(call.act)) \in Nat
  BY <1>2, <1>3, UnitFacts
<1>5. call.out = "none"
  BY DEF DeliveryInv, BeginInv
<1>6. Len(pane.screen) >= 1
  BY <1>4 DEF DeliveryInv, ScreenInv
<1> QED BY <1>1, <1>2, <1>3, <1>4, <1>5, <1>6

\* A unit is typed in the plan that is its own, once.
LEMMA AtSend ==
    ASSUME DeliveryInv, call.st = "running", Step = "send"
    PROVE  call.unit > 0 /\ Len(pane.typed) = call.unit - 1 /\ ~Sent
<1>1. DeliveryTypeOK /\ call.unit \in Nat
  BY RunningFacts
<1>2. /\ call.place \in 1..Len(PlanNow) /\ Len(PlanNow) \in Nat /\ PlanNow[call.place] = "send"
      /\ (call.unit = 0 => NoSend(PlanNow)) /\ OneSend(PlanNow)
  BY <1>1, NowFacts
<1>3. call.unit > 0
  BY <1>1, <1>2 DEF NoSend
<1>4. ~Sent
  BY <1>2 DEF Sent, Answered, OneSend
<1>5. Len(pane.typed) = call.unit - 1
  BY <1>1, <1>3, <1>4 DEF DeliveryInv, TypedInv
<1> QED BY <1>3, <1>4, <1>5

\* It reaches the pane as the record says.
LEMMA TypesFacts ==
    ASSUME DeliveryInv, call.st = "running", Step = "send", Types
    PROVE  /\ Kept /\ \E u : Input(u)
           /\ call.unit > 0 /\ Len(pane.typed) = call.unit - 1 /\ ~Sent
           /\ call.act.kind = "keys" /\ Drafted(call.codex, pane'.screen) => Drafted(call.codex, pane.screen)
<1>1. /\ call.codex \in BOOLEAN /\ call.act \in Actions /\ call.unit \in Nat /\ call.at \in Nat
      /\ call.unit <= Len(Units(call.act)) /\ Len(Units(call.act)) \in Nat
      /\ pane \in Panes /\ pane.screen \in Seq(Lines) /\ pane.mine \in BOOLEAN
      /\ pane.typed \in Seq(Typings) /\ DeliveryTypeOK
  BY RunningFacts
<1>2. call.unit > 0 /\ ~Sent
  BY AtSend
<1>3. Len(pane.typed) = call.unit - 1
  BY AtSend
<1> DEFINE unit == Units(call.act)[call.unit]
           drawn == IF unit = "text" THEN Draft(call.codex, pane.screen) ELSE Cleared(call.codex, pane.screen)
           u == [unit |-> unit, mine |-> pane.mine, at |-> call.at,
                 clear |-> ~Drafted(call.codex, pane.screen)]
<1>4. PICK s \in {pane.screen, drawn} :
        pane' = [pane EXCEPT !.screen = s, !.rev = @ + 1, !.typed = Append(@, u)]
  BY DEF Types
<1>5. u \in Typings
  <2>1. unit \in {"text", "submit"} \cup valid_key
    BY <1>1, <1>2, UnitFacts
  <2>2. (~Drafted(call.codex, pane.screen)) \in BOOLEAN
    BY DEF Drafted
  <2> QED BY <1>1, <2>1, <2>2 DEF Typings
<1>6. /\ s \in Seq(Lines) /\ Len(s) = Len(pane.screen)
      /\ IF call.codex THEN Len(s) >= 3 /\ s[Len(s)] = "footer" /\ s[Len(s) - 1] = "blank" ELSE Len(s) >= 1
      /\ ~Drafted(call.codex, Cleared(call.codex, pane.screen))
  <2>1. IF call.codex THEN /\ Len(pane.screen) >= 3 /\ pane.screen[Len(pane.screen)] = "footer"
                           /\ pane.screen[Len(pane.screen) - 1] = "blank"
        ELSE Len(pane.screen) >= 1
    BY DEF DeliveryInv, ScreenInv
  <2>2. s \in {pane.screen, Draft(call.codex, pane.screen), Cleared(call.codex, pane.screen)}
    OBVIOUS
  <2> QED BY <1>1, <2>1, <2>2, DrawnFacts
<1>7. pane' \in Panes
  <2>1. Append(pane.typed, u) \in Seq(Typings)
    BY <1>1, <1>5
  <2> HIDE DEF u
  <2>2. pane.rev + 1 \in Nat
    BY <1>1 DEF Panes
  <2> QED BY <1>1, <1>4, <1>6, <2>1, <2>2 DEF Panes
<1>8. call.act.kind = "keys" => unit # "text"
  BY <1>1, <1>2, UnitFacts DEF valid_key
<1> HIDE DEF unit
<1>9. /\ pane'.mine = pane.mine /\ pane'.swapped = pane.swapped /\ pane'.drafted = pane.drafted
      /\ pane'.screen = s /\ pane'.typed = Append(pane.typed, u)
  <2> HIDE DEF u
  <2> QED BY <1>1, <1>4 DEF Panes
<1>10. Kept
  BY <1>6, <1>7, <1>9 DEF Kept
<1>11. Input(u)
  BY <1>5, <1>9 DEF Input, unit
<1>12. call.act.kind = "keys" /\ Drafted(call.codex, pane'.screen) => Drafted(call.codex, pane.screen)
  BY <1>6, <1>8, <1>9
<1> QED BY <1>2, <1>3, <1>10, <1>11, <1>12

\* It is one the checks speak for.
LEMMA SendIsGuarded ==
    ASSUME DeliveryInv, call.st = "running", Step = "send", call.unit > 0,
           Len(pane.typed) = call.unit - 1
    PROVE  /\ pane.mine \/ pane.swapped > call.at - IdentityWindow[call.wire]
           /\ \/ ~Drafted(call.codex, pane.screen) \/ ~pane.mine \/ Cutoff
              \/ pane.drafted > call.at - ComposerWindow[call.wire]
<1>1. /\ DeliveryTypeOK /\ call.wire \in Wires /\ call.act \in Actions /\ call.unit \in Nat
      /\ call.unit <= Len(Units(call.act)) /\ Len(Units(call.act)) \in Nat
      /\ pane.typed \in Seq(Typings) /\ call.at \in Nat /\ pane.swapped \in Nat /\ pane.drafted \in Nat
  BY RunningFacts
<1>2. /\ call.place \in 1..Len(PlanNow) /\ Len(PlanNow) \in Nat /\ PlanNow[call.place] = "send"
      /\ Guarded(call.wire, PlanNow)
  BY <1>1, NowFacts
<1> DEFINE i == IdentityWindow[call.wire]
           m == ComposerWindow[call.wire]
<1>3. i \in Nat /\ i > 0 /\ m \in Nat /\ m > 0
  BY <1>1, Windows DEF Wires
<1>4. /\ call.place > i /\ PlanNow[call.place - i] \in Checks
      /\ call.place > m /\ PlanNow[call.place - m] = "read"
      /\ \E j \in 1..Len(PlanNow) : call.place - m < j /\ j < call.place /\ PlanNow[j] = "judge"
  BY <1>2 DEF Guarded
<1> HIDE DEF i, m
<1>5. call.place - i \in Answered /\ call.place - m \in Answered
  BY <1>2, <1>3, <1>4 DEF Answered
<1>6. pane.mine \/ pane.swapped > call.at - i
  <2>1. SUFFICES ASSUME ~pane.mine PROVE pane.swapped > call.at - i
    OBVIOUS
  <2>2. pane.swapped > call.at - (call.place - (call.place - i))
    BY <1>4, <1>5, <2>1 DEF DeliveryInv, IdentityInv
  <2> QED BY <1>1, <1>2, <1>3, <2>2
<1>7. call.act.kind = "keys" \/ pane.typed = <<>>
  BY <1>1, UnitFacts
<1>8. ~Drafted(call.codex, pane.screen) \/ ~pane.mine \/ Cutoff \/ pane.drafted > call.at - m
  <2>1. SUFFICES ASSUME Drafted(call.codex, pane.screen), pane.mine, ~Cutoff
                 PROVE  pane.drafted > call.at - m
    OBVIOUS
  <2>2. PICK j \in Answered : j > call.place - m /\ PlanNow[j] = "judge"
    BY <1>2, <1>3, <1>4 DEF Answered
  <2>3. pane.drafted > call.at - (call.place - (call.place - m))
    BY <1>4, <1>5, <1>7, <2>1, <2>2 DEF DeliveryInv, ComposerInv
  <2> QED BY <1>1, <1>2, <1>3, <2>3
<1> QED BY <1>6, <1>8 DEF i, m

-----------------------------------------------------------------------------
(* What was typed so far stays as true as it was.                           *)

\* Nothing is typed, or the unit the call is at.
Grows == pane'.typed = pane.typed \/ (Step = "send" /\ \E u : Input(u))

\* Neither what was typed is blind, nor what is typed now.
LEMMA StillSighted ==
    ASSUME DeliveryInv, call.st = "running", Kept, Grows, call'.wire = call.wire,
           Step = "send" => call.unit > 0 /\ Len(pane.typed) = call.unit - 1
    PROVE  NoBlindInput'
<1>1. /\ call.wire \in Wires /\ pane.typed \in Seq(Typings) /\ Len(pane.typed) \in Nat
      /\ pane.screen \in Seq(Lines) /\ Len(pane.screen) >= 1
  BY RunningFacts
<1>2. pane'.screen \in Seq(Lines) /\ Len(pane'.screen) = Len(pane.screen)
      /\ pane'.swapped = pane.swapped /\ pane'.drafted = pane.drafted
  BY DEF Kept, Panes
<1>3. Cutoff' <=> Cutoff
  <2>1. Cutoff <=> call.wire = "tmux" /\ Len(pane.screen) > Cap
    BY <1>1, CapturedFacts DEF Cutoff
  <2>2. Cutoff' <=> call'.wire = "tmux" /\ Len(pane'.screen) > Cap
    <3>1. call'.wire \in Wires /\ Len(pane'.screen) >= 1
      BY <1>1, <1>2
    <3>2. /\ Len(Captured(call'.wire, pane'.screen)) < Len(pane'.screen)
             <=> call'.wire = "tmux" /\ Len(pane'.screen) > Cap
      BY <1>2, <3>1, CapturedFacts
    <3> QED BY <3>2 DEF Cutoff
  <2> QED BY <1>2, <2>1, <2>2
<1>4. SUFFICES ASSUME NEW i \in DOMAIN pane'.typed
               PROVE  /\ pane'.typed[i].mine \/ pane.swapped > pane'.typed[i].at - IdentityWindow[call.wire]
                      /\ \/ pane'.typed[i].clear \/ ~pane'.typed[i].mine \/ Cutoff
                         \/ pane.drafted > pane'.typed[i].at - ComposerWindow[call.wire]
  BY <1>2, <1>3 DEF NoBlindInput
<1>5. CASE i \in DOMAIN pane.typed /\ pane'.typed[i] = pane.typed[i]
  BY <1>5 DEF DeliveryInv, NoBlindInput
<1>6. CASE ~(i \in DOMAIN pane.typed /\ pane'.typed[i] = pane.typed[i])
  <2>1. PICK u : Step = "send" /\ Input(u)
    BY <1>4, <1>6 DEF Grows
  <2>2. pane'.typed[i] = u
    BY <1>1, <1>6, <2>1 DEF Input
  <2>3. u.mine = pane.mine /\ u.at = call.at /\ u.clear = ~Drafted(call.codex, pane.screen)
    BY <2>1 DEF Input
  <2> QED BY <2>1, <2>2, <2>3, SendIsGuarded
<1> QED BY <1>5, <1>6

\* The first units of the action, in order.
InOrder(a, typed) ==
    Len(typed) <= Len(Units(a)) /\ \A i \in 1..Len(typed) : typed[i].unit = Units(a)[i]
\* OutcomeIsTrue, without the sequence of the units.
True(out, a, typed) ==
    /\ out \in {"unsafe", "integration", "captured"} => Len(typed) = 0
    /\ out = "committed" => Len(typed) = Len(Units(a))
    /\ InOrder(a, typed)

\* The two say the same.
LEMMA OutcomeMeans ==
    ASSUME NEW typed \in Seq(Typings), NEW a \in Actions, NEW out
    PROVE  LET units == [i \in DOMAIN typed |-> typed[i].unit] IN
           (/\ out \in {"unsafe", "integration", "captured"} => units = <<>>
            /\ out = "committed" => units = Units(a)
            /\ Len(units) <= Len(Units(a)) /\ \A i \in DOMAIN units : units[i] = Units(a)[i])
           <=> True(out, a, typed)
<1> DEFINE units == [i \in DOMAIN typed |-> typed[i].unit]
           U == Units(a)
<1>1. Len(typed) \in Nat /\ DOMAIN typed = 1..Len(typed)
  OBVIOUS
<1>2. U \in Seq({"text", "submit"} \cup valid_key)
  BY UnitFacts
<1>3. \A i \in 1..Len(typed) : typed[i].unit \in {"text", "submit"} \cup valid_key
  <2>1. \A i \in 1..Len(typed) : typed[i] \in Typings
    OBVIOUS
  <2> QED BY <2>1 DEF Typings
<1>4. /\ units \in Seq({"text", "submit"} \cup valid_key) /\ Len(units) = Len(typed)
      /\ DOMAIN units = 1..Len(typed) /\ \A i \in 1..Len(typed) : units[i] = typed[i].unit
  BY <1>1, <1>3
<1> HIDE DEF units, U
<1>5. units = <<>> <=> Len(typed) = 0
  BY <1>1, <1>4
<1>6. InOrder(a, typed) <=> Len(units) <= Len(U) /\ \A i \in DOMAIN units : units[i] = U[i]
  BY <1>4 DEF InOrder, U
<1>7. units = U => Len(typed) = Len(U)
  BY <1>4
<1>8. Len(typed) = Len(U) /\ InOrder(a, typed) => units = U
  BY <1>1, <1>2, <1>4, <1>6
<1>9. (/\ out \in {"unsafe", "integration", "captured"} => units = <<>>
       /\ out = "committed" => units = U
       /\ Len(units) <= Len(U) /\ \A i \in DOMAIN units : units[i] = U[i])
      <=> True(out, a, typed)
  BY <1>5, <1>6, <1>7, <1>8 DEF True, U
<1> QED BY <1>9 DEF units, U

\* They stay in order.
LEMMA StillInOrder ==
    ASSUME DeliveryInv, call.st = "running", pane' \in Panes, Grows,
           Step = "send" => call.unit > 0 /\ Len(pane.typed) = call.unit - 1
    PROVE  InOrder(call.act, pane'.typed)
<1>1. /\ pane.typed \in Seq(Typings) /\ Len(pane.typed) \in Nat /\ call.act \in Actions
      /\ call.unit \in Nat /\ call.unit <= Len(Units(call.act)) /\ Len(Units(call.act)) \in Nat
  BY RunningFacts
<1>2. InOrder(call.act, pane.typed)
  BY <1>1, OutcomeMeans DEF DeliveryInv, OutcomeIsTrue, True
<1>3. CASE pane'.typed = pane.typed
  BY <1>2, <1>3
<1>4. CASE pane'.typed # pane.typed
  <2>1. PICK u : Step = "send" /\ Input(u)
    BY <1>4 DEF Grows
  <2>2. /\ pane'.typed = Append(pane.typed, u) /\ u.unit = Units(call.act)[call.unit]
        /\ Len(pane.typed) = call.unit - 1
    BY <2>1 DEF Input
  <2>3. Len(pane'.typed) = call.unit /\ pane'.typed[call.unit] = u
    BY <1>1, <2>2
  <2>4. \A i \in 1..call.unit : i # call.unit => i \in 1..Len(pane.typed) /\ pane'.typed[i] = pane.typed[i]
    BY <1>1, <2>2
  <2> QED BY <1>1, <1>2, <2>2, <2>3, <2>4 DEF InOrder
<1> QED BY <1>3, <1>4

-----------------------------------------------------------------------------
(* A request that is answered, whichever it is, keeps the invariant.        *)

\* An answered request: what the pane keeps, what the call has learnt, and that an
\* identity check found the recorded process, a judgement a free composer.
Advances(c) ==
    /\ call.st = "running" /\ Like(c) /\ Goes(c) /\ Kept /\ Grows
    /\ Step # "refused"
    /\ Step = "send" <=> pane'.typed # pane.typed
    /\ Step \in Checks => pane.mine
    /\ Step = "judge" => composer_state(call.codex, call.wire, call.seen) = "safe"
    /\ IF Step = "read" THEN c.seen = Captured(call.wire, pane.screen) /\ c.own = pane.mine
       ELSE c.seen = call.seen /\ c.own = call.own
    /\ Step = "send" => call.unit > 0 /\ Len(pane.typed) = call.unit - 1 /\ ~Sent
    /\ call.act.kind = "keys" \/ pane'.typed = <<>> =>
          (Drafted(call.codex, pane'.screen) => Drafted(call.codex, pane.screen))

\* At the end of its plan a unit has been typed.
LEMMA AdvanceTyped ==
    ASSUME DeliveryInv, NEW c, Advances(c)
    PROVE  /\ TypedInv'
           /\ call.place = Len(PlanNow) => Len(pane'.typed) = call.unit
<1>1. /\ DeliveryTypeOK /\ call.unit \in Nat /\ call.place \in Nat /\ pane.typed \in Seq(Typings)
      /\ Len(pane.typed) \in Nat /\ call.st = "running" /\ pane' \in Panes
  BY RunningFacts DEF Advances, Kept
<1>2. /\ Len(PlanNow) \in Nat /\ call.place \in 1..Len(PlanNow) /\ Step = PlanNow[call.place]
      /\ (call.unit = 0 => NoSend(PlanNow)) /\ (call.unit > 0 => Types1(PlanNow)) /\ OneSend(PlanNow)
  BY <1>1, NowFacts
<1>3. NextPlace \/ NextUnit \/ Finished
  BY <1>1, GoesFacts DEF Advances
<1>4. Len(pane.typed) = IF Sent \/ call.unit = 0 THEN call.unit ELSE call.unit - 1
  BY <1>1 DEF DeliveryInv, TypedInv
<1>5. /\ Step = "send" => Len(pane'.typed) = call.unit /\ call.unit > 0
      /\ Step # "send" => pane'.typed = pane.typed
  <2>1. CASE Step = "send"
    <3>1. PICK u : Input(u)
      BY <2>1 DEF Advances, Grows
    <3>2. Len(pane'.typed) = Len(pane.typed) + 1
      BY <1>1, <3>1 DEF Input
    <3> QED BY <1>1, <2>1, <3>2 DEF Advances
  <2> QED BY <2>1 DEF Advances
<1>6. ASSUME call.place = Len(PlanNow) PROVE Len(pane'.typed) = call.unit
  <2>1. CASE Step = "send"
    BY <1>5, <2>1
  <2>2. CASE Step # "send" /\ call.unit = 0
    BY <1>4, <1>5, <2>2
  <2>3. CASE Step # "send" /\ call.unit # 0
    <3>1. PICK s \in 1..Len(PlanNow) : PlanNow[s] = "send"
      BY <1>1, <1>2, <1>6, <2>3 DEF Types1, Advances
    <3>2. Sent
      BY <1>2, <1>6, <2>3, <3>1 DEF Sent, Answered
    <3> QED BY <1>4, <1>5, <2>3, <3>2
  <2> QED BY <2>1, <2>2, <2>3
<1>7. TypedInv'
  <2>1. CASE NextPlace
    <3>1. call'.unit = call.unit /\ call'.place = call.place + 1 /\ PlanNow' = PlanNow
      BY <2>1 DEF NextPlace
    <3>2. Sent' <=> Sent \/ Step = "send"
      BY <1>1, <1>2, <3>1 DEF Sent, Answered
    <3> QED BY <1>1, <1>4, <1>5, <3>1, <3>2 DEF TypedInv
  <2>2. CASE NextUnit
    <3>1. call'.unit = call.unit + 1 /\ call'.place = 1 /\ call.place = Len(PlanNow)
      BY <2>2 DEF NextUnit
    <3>2. ~Sent'
      BY <3>1 DEF Sent, Answered
    <3> QED BY <1>1, <1>6, <3>1, <3>2 DEF TypedInv
  <2>3. CASE Finished
    BY <2>3 DEF Finished, TypedInv
  <2> QED BY <1>3, <2>1, <2>2, <2>3
<1> QED BY <1>6, <1>7

\* The identity checks that were passed.
LEMMA AdvanceIdentity ==
    ASSUME DeliveryInv, NEW c, Advances(c)
    PROVE  IdentityInv'
<1>1. /\ DeliveryTypeOK /\ call.place \in Nat /\ call.at \in Nat /\ pane.swapped \in Nat
      /\ call.st = "running" /\ pane' \in Panes /\ pane'.mine = pane.mine /\ pane'.swapped = pane.swapped
  BY RunningFacts DEF Advances, Kept
<1>2. Step = PlanNow[call.place] /\ (Step \in Checks => pane.mine)
  BY <1>1, NowFacts DEF Advances
<1>3. NextPlace \/ NextUnit \/ Finished
  BY <1>1, GoesFacts DEF Advances
<1>4. CASE NextPlace
  <2>1. call'.place = call.place + 1 /\ call'.at = call.at + 1 /\ PlanNow' = PlanNow
    BY <1>4 DEF NextPlace
  <2>2. SUFFICES ASSUME ~pane.mine, NEW q \in 1..call.place, PlanNow[q] \in Checks
                 PROVE  pane.swapped > (call.at + 1) - ((call.place + 1) - q)
    BY <1>1, <2>1 DEF IdentityInv, Answered
  <2>3. q \in Answered
    BY <1>1, <1>2, <2>2 DEF Answered
  <2>4. pane.swapped > call.at - (call.place - q)
    BY <1>1, <2>2, <2>3 DEF DeliveryInv, IdentityInv
  <2> QED BY <1>1, <2>4
<1>5. CASE NextUnit
  BY <1>5 DEF NextUnit, IdentityInv, Answered
<1>6. CASE Finished
  BY <1>6 DEF Finished, IdentityInv
<1> QED BY <1>3, <1>4, <1>5, <1>6

\* The reads that were judged.
LEMMA AdvanceComposer ==
    ASSUME DeliveryInv, NEW c, Advances(c)
    PROVE  ComposerInv'
<1>1. /\ DeliveryTypeOK /\ call.place \in Nat /\ call.at \in Nat /\ pane.drafted \in Nat
      /\ call.wire \in Wires /\ call.codex \in BOOLEAN
      /\ pane.screen \in Seq(Lines) /\ Len(pane.screen) >= 1
      /\ call.st = "running" /\ pane' \in Panes /\ pane'.mine = pane.mine /\ pane'.drafted = pane.drafted
      /\ pane'.screen \in Seq(Lines) /\ Len(pane'.screen) = Len(pane.screen)
  BY RunningFacts DEF Advances, Kept, Panes
<1>2. Step = PlanNow[call.place]
  BY <1>1, NowFacts
<1>3. /\ NextPlace \/ NextUnit \/ Finished
      /\ call'.wire = call.wire /\ call'.codex = call.codex /\ call'.act = call.act /\ call'.seen = c.seen
  BY <1>1, GoesFacts DEF Advances
<1>4. CASE NextPlace
  <2>1. call'.place = call.place + 1 /\ call'.at = call.at + 1 /\ PlanNow' = PlanNow
    BY <1>4 DEF NextPlace
  <2>2. SUFFICES ASSUME call.act.kind = "keys" \/ pane'.typed = <<>>, pane.mine, ~Cutoff',
                        Drafted(call.codex, pane'.screen),
                        NEW q \in 1..call.place, PlanNow[q] = "read"
                 PROVE  \/ pane.drafted > (call.at + 1) - ((call.place + 1) - q)
                        \/ /\ composer_state(call.codex, call.wire, c.seen) # "safe"
                           /\ \A j \in 1..call.place : j > q => PlanNow[j] # "judge"
    BY <1>1, <1>3, <2>1 DEF ComposerInv, Answered
  <2>3. ~Cutoff /\ Captured(call.wire, pane.screen) = pane.screen
    <3>1. Len(Captured(call.wire, pane.screen)) < Len(pane.screen)
            <=> call.wire = "tmux" /\ Len(pane.screen) > Cap
      BY <1>1, CapturedFacts
    <3>2. Len(Captured(call.wire, pane'.screen)) < Len(pane'.screen)
            <=> call.wire = "tmux" /\ Len(pane'.screen) > Cap
      BY <1>1, CapturedFacts
    <3>3. ~(Len(Captured(call.wire, pane.screen)) < Len(pane.screen))
      BY <1>1, <1>3, <2>2, <3>1, <3>2 DEF Cutoff
    <3> QED BY <1>1, <3>3, CapturedFacts DEF Cutoff
  <2>4. Drafted(call.codex, pane.screen)
    BY <2>2 DEF Advances
  <2>5. call.act.kind = "keys" \/ pane.typed = <<>>
    <3>1. pane.typed \in Seq(Typings)
      BY RunningFacts DEF Advances
    <3>2. \A u : Append(pane.typed, u) # <<>>
      BY <3>1
    <3> QED BY <2>2, <3>2 DEF Advances, Grows, Input
  <2>6. CASE Step = "read"
    <3>1. c.seen = pane.screen
      BY <2>3, <2>6 DEF Advances
    <3>2. composer_state(call.codex, call.wire, c.seen) # "safe"
      <4>1. IF call.codex THEN /\ Len(pane.screen) >= 3 /\ pane.screen[Len(pane.screen)] = "footer"
                               /\ pane.screen[Len(pane.screen) - 1] = "blank"
            ELSE Len(pane.screen) >= 1
        BY DEF DeliveryInv, ScreenInv
      <4> QED BY <1>1, <2>4, <3>1, <4>1, DraftIsSeen
    <3>3. CASE q = call.place
      BY <1>1, <3>2, <3>3
    <3>4. CASE q # call.place
      <4>1. q \in Answered
        BY <1>1, <3>4 DEF Answered
      <4>2. \/ pane.drafted > call.at - (call.place - q)
            \/ \A j \in Answered : j > q => PlanNow[j] # "judge"
        BY <1>1, <2>2, <2>3, <2>4, <2>5, <4>1 DEF DeliveryInv, ComposerInv
      <4>3. CASE pane.drafted > call.at - (call.place - q)
        BY <1>1, <4>3
      <4>4. CASE \A j \in Answered : j > q => PlanNow[j] # "judge"
        <5>1. \A j \in 1..call.place : j \in Answered \/ j = call.place
          BY <1>1 DEF Answered
        <5> QED BY <1>2, <2>6, <3>2, <4>4, <5>1
      <4> QED BY <4>2, <4>3, <4>4
    <3> QED BY <3>3, <3>4
  <2>7. CASE Step # "read"
    <3>1. q \in Answered /\ c.seen = call.seen
      BY <1>1, <1>2, <2>2, <2>7 DEF Answered, Advances
    <3>2. \/ pane.drafted > call.at - (call.place - q)
          \/ /\ composer_state(call.codex, call.wire, call.seen) # "safe"
             /\ \A j \in Answered : j > q => PlanNow[j] # "judge"
      BY <1>1, <2>2, <2>3, <2>4, <2>5, <3>1 DEF DeliveryInv, ComposerInv
    <3>3. CASE pane.drafted > call.at - (call.place - q)
      BY <1>1, <3>3
    <3>4. CASE /\ composer_state(call.codex, call.wire, call.seen) # "safe"
               /\ \A j \in Answered : j > q => PlanNow[j] # "judge"
      <4>1. PlanNow[call.place] # "judge"
        BY <1>2, <3>4 DEF Advances
      <4>2. \A j \in 1..call.place : j \in Answered \/ j = call.place
        BY <1>1 DEF Answered
      <4> QED BY <3>1, <3>4, <4>1, <4>2
    <3> QED BY <3>2, <3>3, <3>4
  <2> QED BY <2>6, <2>7
<1>5. CASE NextUnit
  BY <1>5 DEF NextUnit, ComposerInv, Answered
<1>6. CASE Finished
  BY <1>6 DEF Finished, ComposerInv
<1> QED BY <1>3, <1>4, <1>5, <1>6

\* The lines that were read.
LEMMA AdvanceSeen ==
    ASSUME DeliveryInv, NEW c, Advances(c)
    PROVE  SeenInv' /\ SeenIsOfTarget'
<1>1. /\ DeliveryTypeOK /\ call.place \in Nat /\ call.own \in BOOLEAN /\ call.out = "none"
      /\ call.st = "running" /\ pane' \in Panes /\ pane'.mine = pane.mine /\ pane.mine \in BOOLEAN
  BY RunningFacts DEF Advances, Kept
<1>2. /\ Len(PlanNow) \in Nat /\ call.place \in 1..Len(PlanNow) /\ Step = PlanNow[call.place]
      /\ call.wire # "native" /\ (call.wire = "bridge" => call.act.kind # "capture") => Confirmed(PlanNow)
  BY <1>1, NowFacts
<1>3. /\ NextPlace \/ NextUnit \/ Finished
      /\ call'.wire = call.wire /\ call'.act = call.act /\ call'.own = c.own
  BY <1>1, GoesFacts DEF Advances
<1>4. /\ Step = "read" => c.own = pane.mine
      /\ Step # "read" => c.own = call.own
      /\ Step \in Checks => pane.mine
  BY DEF Advances
<1>5. ~call.own => ~pane.mine
  BY <1>1 DEF DeliveryInv, SeenInv
<1>6. SeenInv'
  BY <1>1, <1>3, <1>4, <1>5 DEF SeenInv
<1>7. SeenIsOfTarget'
  <2>1. SUFFICES ASSUME ~c.own, call.wire # "native", ~(call.wire = "bridge" /\ call.act.kind = "capture")
                 PROVE  call'.st = "running" /\ Step' # "judge" /\ call'.place > 1
                        /\ PlanNow'[call'.place - 1] = "read"
    BY <1>3 DEF SeenIsOfTarget
  <2>2. Confirmed(PlanNow)
    BY <1>2, <2>1
  <2>3. Step = "read"
    <3>1. SUFFICES ASSUME Step # "read" PROVE FALSE
      OBVIOUS
    <3>2. ~call.own /\ ~pane.mine
      BY <1>4, <1>5, <2>1, <3>1
    <3>3. call.place > 1 /\ PlanNow[call.place - 1] = "read"
      BY <1>1, <2>1, <3>2 DEF DeliveryInv, SeenIsOfTarget
    <3>4. PlanNow[(call.place - 1) + 1] = "id"
      BY <1>1, <1>2, <2>2, <3>3 DEF Confirmed
    <3>5. Step \in Checks
      BY <1>1, <1>2, <3>4 DEF Checks
    <3> QED BY <1>4, <3>2, <3>5
  <2>4. call.place < Len(PlanNow) /\ PlanNow[call.place + 1] = "id"
    BY <1>2, <2>2, <2>3 DEF Confirmed
  <2>5. NextPlace
    BY <1>2, <1>3, <2>4 DEF NextUnit, Finished
  <2>6. call'.st = "running" /\ call'.place = call.place + 1 /\ PlanNow' = PlanNow
    BY <2>5 DEF NextPlace
  <2>7. Step' = "id"
    BY <2>4, <2>6 DEF Step
  <2>8. call'.place - 1 = call.place /\ call'.place > 1
    BY <1>1, <1>2, <2>6
  <2>9. PlanNow'[call'.place - 1] = "read"
    BY <1>2, <2>3, <2>6, <2>8
  <2> QED BY <2>6, <2>7, <2>8, <2>9
<1> QED BY <1>6, <1>7

\* All of the invariant.
LEMMA AdvanceKeeps ==
    ASSUME DeliveryInv, NEW c, Advances(c)
    PROVE  DeliveryInv'
<1>1. /\ DeliveryTypeOK /\ call.st = "running" /\ pane' \in Panes /\ Like(c) /\ Goes(c) /\ Kept /\ Grows
      /\ (Step = "send" => call.unit > 0 /\ Len(pane.typed) = call.unit - 1)
  BY DEF Advances, Kept, DeliveryInv
<1>2. /\ DeliveryTypeOK'
      /\ call'.wire = call.wire /\ call'.codex = call.codex /\ call'.act = call.act
      /\ NextPlace \/ NextUnit \/ Finished
  BY <1>1, GoesFacts
<1>3. /\ call.act \in Actions /\ call.unit \in Nat /\ call.at \in Nat \ {0}
      /\ pane.swapped \in Nat /\ pane.drafted \in Nat /\ Len(Units(call.act)) \in Nat
  BY <1>1, RunningFacts
<1>4. ScreenInv'
  BY <1>1, <1>2 DEF Kept, ScreenInv
<1>5. BeginInv'
  <2>1. /\ call.at = 1 => call.unit = 0
        /\ pane.swapped <= call.at /\ pane.drafted <= call.at
    BY DEF DeliveryInv, BeginInv
  <2>2. pane'.swapped = pane.swapped /\ pane'.drafted = pane.drafted
    BY <1>1 DEF Kept
  <2>3. CASE NextPlace
    BY <1>3, <2>1, <2>2, <2>3 DEF NextPlace, BeginInv
  <2>4. CASE NextUnit
    BY <1>3, <2>1, <2>2, <2>4 DEF NextUnit, BeginInv
  <2>5. CASE Finished
    BY <1>3, <2>1, <2>2, <2>5 DEF Finished, BeginInv
  <2> QED BY <1>2, <2>3, <2>4, <2>5
<1>6. TypedInv' /\ IdentityInv' /\ ComposerInv' /\ SeenInv' /\ SeenIsOfTarget'
  BY AdvanceTyped, AdvanceIdentity, AdvanceComposer, AdvanceSeen
<1>7. NoBlindInput'
  BY <1>1, <1>2, StillSighted
<1>8. OutcomeIsTrue'
  <2>1. pane'.typed \in Seq(Typings) /\ call'.act \in Actions
    BY <1>1, <1>2, <1>3 DEF Panes
  <2>2. InOrder(call.act, pane'.typed)
    BY <1>1, StillInOrder
  <2>3. call'.out \in {"unsafe", "integration", "captured"} => Len(pane'.typed) = 0
    <3>1. SUFFICES ASSUME call'.out \in {"unsafe", "integration", "captured"} PROVE Len(pane'.typed) = 0
      OBVIOUS
    <3>2. call.act.kind = "capture"
      BY <1>2, <3>1 DEF NextPlace, NextUnit, Finished
    <3>3. Units(call.act) = <<>>
      BY <1>3, <3>2, UnitFacts
    <3> QED BY <2>1, <2>2, <3>3 DEF InOrder
  <2>4. call'.out = "committed" => Len(pane'.typed) = Len(Units(call.act))
    BY <1>2, AdvanceTyped DEF NextPlace, NextUnit, Finished
  <2>5. True(call'.out, call'.act, pane'.typed)
    BY <1>2, <2>2, <2>3, <2>4 DEF True
  <2> QED BY <2>1, <2>5, OutcomeMeans DEF OutcomeIsTrue
<1> QED BY <1>2, <1>4, <1>5, <1>6, <1>7, <1>8 DEF DeliveryInv

-----------------------------------------------------------------------------
(* The actions.                                                             *)

\* A call that ends with an error.
LEMMA EndsKeeps ==
    ASSUME DeliveryInv, call.st = "running", Kept, Grows,
           Step = "send" => call.unit > 0 /\ Len(pane.typed) = call.unit - 1,
           NEW out \in {"integration", "possible"}, NEW why \in {"identity", "fault", "composer"},
           Ends(out, why),
           out = "integration" => pane'.typed = pane.typed /\ out = Failure
    PROVE  DeliveryInv'
<1>1. /\ DeliveryTypeOK /\ call \in Calls /\ call.act \in Actions /\ call.unit \in Nat
      /\ pane.typed \in Seq(Typings) /\ Len(pane.typed) \in Nat /\ Len(Units(call.act)) \in Nat
  BY RunningFacts
<1>2. /\ call' \in Calls /\ call'.st = "done" /\ call'.out = out
      /\ call'.wire = call.wire /\ call'.codex = call.codex /\ call'.act = call.act
      /\ call'.unit = call.unit /\ call'.place = call.place /\ call'.at = call.at
  BY <1>1 DEF Ends, Calls
<1>3. DeliveryTypeOK'
  BY <1>1, <1>2 DEF DeliveryTypeOK, PlanNow, Kept
<1>4. ScreenInv'
  BY <1>2 DEF ScreenInv, Kept
<1>5. BeginInv'
  BY <1>2 DEF BeginInv, Kept, DeliveryInv
<1>6. TypedInv' /\ IdentityInv' /\ ComposerInv' /\ SeenInv'
  BY <1>2 DEF TypedInv, IdentityInv, ComposerInv, SeenInv
<1>7. SeenIsOfTarget'
  BY <1>2 DEF SeenIsOfTarget
<1>8. NoBlindInput'
  BY <1>2, StillSighted
<1>9. OutcomeIsTrue'
  <2>1. pane'.typed \in Seq(Typings) /\ pane' \in Panes
    BY DEF Kept, Panes
  <2>2. InOrder(call.act, pane'.typed)
    BY <2>1, StillInOrder
  <2>3. out = "integration" => Len(pane'.typed) = 0
    <3>1. SUFFICES ASSUME out = "integration" PROVE Len(pane.typed) = 0
      OBVIOUS
    <3>2. CASE call.at = 1
      BY <1>1, <3>2 DEF DeliveryInv, BeginInv, TypedInv
    <3>3. CASE call.act.kind = "capture"
      <4>1. Units(call.act) = <<>>
        BY <1>1, <3>3, UnitFacts
      <4> QED BY <1>1, <2>2, <3>1, <4>1 DEF InOrder
    <3> QED BY <3>1, <3>2, <3>3 DEF Failure
  <2>4. True(call'.out, call'.act, pane'.typed)
    BY <1>2, <2>2, <2>3 DEF True
  <2> QED BY <1>1, <1>2, <2>1, <2>4, OutcomeMeans DEF OutcomeIsTrue
<1> QED BY <1>3, <1>4, <1>5, <1>6, <1>7, <1>8, <1>9 DEF DeliveryInv

\* A request that does nothing to the pane.
LEMMA PaneUntouched ==
    ASSUME DeliveryInv, call.st = "running", pane' = pane
    PROVE  Kept /\ Grows
<1>1. pane \in Panes
  BY RunningFacts
<1>2. IF call.codex THEN /\ Len(pane.screen) >= 3 /\ pane.screen[Len(pane.screen)] = "footer"
                         /\ pane.screen[Len(pane.screen) - 1] = "blank"
      ELSE Len(pane.screen) >= 1
  BY DEF DeliveryInv, ScreenInv
<1> QED BY <1>1, <1>2 DEF Kept, Grows

\* validate_identity: the pane's process is the recorded one, or the call ends.
LEMMA ValidateIdentityKeeps ==
    ASSUME DeliveryInv, ValidateIdentity
    PROVE  DeliveryInv'
<1>1. call.st = "running" /\ Step \in Checks /\ pane' = pane
  BY DEF ValidateIdentity, Checks
<1>2. Kept /\ Grows
  BY <1>1, PaneUntouched
<1>3. /\ call \in Calls /\ call.wire \in Wires /\ call.out = "none" /\ pane \in Panes
      /\ pane.mine \in BOOLEAN
  BY <1>1, RunningFacts
<1> DEFINE holds == CASE call.wire = "tmux" -> tmux_identity_holds
                      [] call.wire = "bridge" -> bridge_identity_holds
                      [] call.wire = "native" -> native_identity_holds
           c == [call EXCEPT !.rev = IF Step = "pin" THEN pane.rev ELSE @]
<1>4. holds => pane.mine
  BY <1>3 DEF Wires, tmux_identity_holds, bridge_identity_holds, native_identity_holds, process_matches,
              Recorded, parse_metadata, map_pane, native_target_snapshot
<1>5. Like(c) /\ c.seen = call.seen /\ c.own = call.own
  <2>1. pane.rev \in Nat
    BY <1>3 DEF Panes
  <2> QED BY <1>1, <1>3, <2>1 DEF Like, Calls
<1>6. IF holds THEN Goes(c) ELSE Ends(Failure, "identity")
  BY DEF ValidateIdentity
<1> HIDE DEF holds, c
<1>7. Step \notin {"send", "judge", "read", "refused"}
  BY <1>1 DEF Checks
<1>8. CASE holds
  <2>1. Advances(c)
    BY <1>1, <1>2, <1>4, <1>5, <1>6, <1>7, <1>8 DEF Advances
  <2> QED BY <2>1, AdvanceKeeps
<1>9. CASE ~holds
  <2>1. Ends(Failure, "identity") /\ Failure \in {"integration", "possible"}
    BY <1>6, <1>9 DEF Failure
  <2> QED BY <1>1, <1>2, <1>7, <2>1, EndsKeeps
<1> QED BY <1>8, <1>9

\* The lines are read.
LEMMA ReadPaneKeeps ==
    ASSUME DeliveryInv, ReadPane
    PROVE  DeliveryInv'
<1>1. call.st = "running" /\ Step = "read" /\ pane' = pane
  BY DEF ReadPane
<1>2. Kept /\ Grows
  BY <1>1, PaneUntouched
<1> DEFINE c == [call EXCEPT !.seen = Captured(call.wire, pane.screen), !.own = pane.mine]
<1>3. /\ call \in Calls /\ call.wire \in Wires /\ call.out = "none" /\ pane.mine \in BOOLEAN
      /\ pane.screen \in Seq(Lines) /\ Len(pane.screen) >= 1
  BY <1>1, RunningFacts
<1>4. Captured(call.wire, pane.screen) \in Seq(Lines) \ {<<>>}
  BY <1>3, CapturedFacts
<1>5. Like(c) /\ c.seen = Captured(call.wire, pane.screen) /\ c.own = pane.mine
  BY <1>1, <1>3, <1>4 DEF Like, Calls
<1>6. Goes(c)
  BY DEF ReadPane
<1> HIDE DEF c
<1>7. Advances(c)
  BY <1>1, <1>2, <1>5, <1>6 DEF Advances, Checks
<1> QED BY <1>7, AdvanceKeeps

\* The composer is judged.
LEMMA RequireSafeKeeps ==
    ASSUME DeliveryInv, RequireSafe
    PROVE  DeliveryInv'
<1>1. call.st = "running" /\ Step = "judge" /\ pane' = pane
  BY DEF RequireSafe
<1>2. Kept /\ Grows
  BY <1>1, PaneUntouched
<1>3. Like(call)
  BY <1>1, RunningFacts DEF Like
<1>4. CASE composer_state(call.codex, call.wire, call.seen) = "safe"
  <2>1. Advances(call)
    BY <1>1, <1>2, <1>3, <1>4 DEF RequireSafe, Advances, Checks
  <2> QED BY <2>1, AdvanceKeeps
<1>5. CASE composer_state(call.codex, call.wire, call.seen) # "safe"
  <2>1. Ends("possible", "composer")
    BY <1>5 DEF RequireSafe
  <2> QED BY <1>1, <1>2, <2>1, EndsKeeps
<1> QED BY <1>4, <1>5

\* The unit is typed, acknowledged
LEMMA SendKeeps ==
    ASSUME DeliveryInv, Send
    PROVE  DeliveryInv'
<1>1. call.st = "running" /\ Step = "send" /\ Types /\ Goes(call)
  BY DEF Send
<1>2. /\ Kept /\ (\E u : Input(u)) /\ call.unit > 0 /\ Len(pane.typed) = call.unit - 1 /\ ~Sent
      /\ call.act.kind = "keys" /\ Drafted(call.codex, pane'.screen) => Drafted(call.codex, pane.screen)
  BY <1>1, TypesFacts
<1>3. Like(call) /\ pane.typed \in Seq(Typings)
  BY <1>1, RunningFacts DEF Like
<1>4. pane'.typed # pane.typed /\ pane'.typed # <<>>
  <2>1. \A u : Append(pane.typed, u) # pane.typed /\ Append(pane.typed, u) # <<>>
    <3>1. \A u : Len(Append(pane.typed, u)) = Len(pane.typed) + 1 /\ Len(pane.typed) \in Nat
      BY <1>3
    <3> QED BY <1>3, <3>1
  <2> QED BY <1>2, <2>1 DEF Input
<1>5. Advances(call)
  BY <1>1, <1>2, <1>3, <1>4 DEF Advances, Checks, Grows
<1> QED BY <1>5, AdvanceKeeps

\* or not.
LEMMA SendUnansweredKeeps ==
    ASSUME DeliveryInv, SendUnanswered
    PROVE  DeliveryInv'
<1>1. call.st = "running" /\ Step = "send" /\ Types /\ Ends("possible", "fault")
  BY DEF SendUnanswered
<1>2. Kept /\ Grows /\ call.unit > 0 /\ Len(pane.typed) = call.unit - 1
  BY <1>1, TypesFacts DEF Grows
<1> QED BY <1>1, <1>2, EndsKeeps

\* A request fails, on any of the wires.
LEMMA RequestFailsKeeps ==
    ASSUME DeliveryInv, NEW wire, RequestFails(wire)
    PROVE  DeliveryInv'
<1>1. call.st = "running" /\ pane' = pane /\ Ends(Failure, "fault")
  BY DEF RequestFails
<1>2. Kept /\ Grows
  BY <1>1, PaneUntouched
<1>3. Failure \in {"integration", "possible"}
  BY DEF Failure
<1>4. Step = "send" => call.unit > 0 /\ Len(pane.typed) = call.unit - 1
  <2>1. SUFFICES ASSUME Step = "send" PROVE call.unit > 0 /\ Len(pane.typed) = call.unit - 1
    OBVIOUS
  <2> QED BY <1>1, <2>1, AtSend
<1> QED BY <1>1, <1>2, <1>3, <1>4, EndsKeeps

\* What was typed is no blinder for what happens to the pane afterwards.
LEMMA LaterIsNoBlinder ==
    ASSUME DeliveryInv, call.st = "running", pane' \in Panes, UNCHANGED call, pane'.typed = pane.typed,
           Len(pane'.screen) = Len(pane.screen),
           pane'.swapped >= pane.swapped, pane'.drafted >= pane.drafted
    PROVE  NoBlindInput' /\ OutcomeIsTrue'
<1>1. /\ call.wire \in Wires /\ pane.typed \in Seq(Typings) /\ Len(pane.typed) \in Nat
      /\ pane.screen \in Seq(Lines) /\ Len(pane.screen) >= 1 /\ pane.swapped \in Nat /\ pane.drafted \in Nat
  BY RunningFacts
<1>2. pane'.screen \in Seq(Lines) /\ Len(pane'.screen) >= 1 /\ pane'.swapped \in Nat /\ pane'.drafted \in Nat
  BY <1>1 DEF Panes
<1>3. Cutoff' <=> Cutoff
  <2>1. Len(Captured(call.wire, pane.screen)) < Len(pane.screen)
          <=> call.wire = "tmux" /\ Len(pane.screen) > Cap
    BY <1>1, CapturedFacts
  <2>2. Len(Captured(call.wire, pane'.screen)) < Len(pane'.screen)
          <=> call.wire = "tmux" /\ Len(pane'.screen) > Cap
    BY <1>1, <1>2, CapturedFacts
  <2> QED BY <2>1, <2>2 DEF Cutoff
<1>4. \A i \in DOMAIN pane.typed : pane.typed[i].at \in Nat
  <2>1. \A i \in DOMAIN pane.typed : pane.typed[i] \in Typings
    BY <1>1
  <2> QED BY <2>1 DEF Typings
<1>5. IdentityWindow[call.wire] \in Nat /\ ComposerWindow[call.wire] \in Nat
  BY <1>1, Windows DEF Wires
<1>6. NoBlindInput'
  <2>1. SUFFICES ASSUME NEW i \in DOMAIN pane.typed
                 PROVE  /\ pane.typed[i].mine \/ pane'.swapped > pane.typed[i].at - IdentityWindow[call.wire]
                        /\ \/ pane.typed[i].clear \/ ~pane.typed[i].mine \/ Cutoff
                           \/ pane'.drafted > pane.typed[i].at - ComposerWindow[call.wire]
    BY <1>3 DEF NoBlindInput
  <2>2. /\ pane.typed[i].mine \/ pane.swapped > pane.typed[i].at - IdentityWindow[call.wire]
        /\ \/ pane.typed[i].clear \/ ~pane.typed[i].mine \/ Cutoff
           \/ pane.drafted > pane.typed[i].at - ComposerWindow[call.wire]
    BY DEF NoBlindInput, DeliveryInv
  <2> QED BY <1>1, <1>2, <1>4, <1>5, <2>2
<1>7. OutcomeIsTrue'
  BY DEF OutcomeIsTrue, DeliveryInv
<1> QED BY <1>6, <1>7

\* The human writes on the input line, or empties it.
LEMMA HumanTypesKeeps ==
    ASSUME DeliveryInv, HumanTypes
    PROVE  DeliveryInv'
<1>1. call.st = "running" /\ UNCHANGED call
  BY DEF HumanTypes, Disturbed
<1>2. /\ DeliveryTypeOK /\ call.codex \in BOOLEAN /\ call.at \in Nat /\ call.place \in Nat /\ pane \in Panes
      /\ pane.screen \in Seq(Lines) /\ pane.swapped \in Nat /\ pane.drafted \in Nat
      /\ pane.human \in Nat /\ pane.rev \in Nat
  BY <1>1, RunningFacts DEF Panes
<1>3. pane.swapped <= call.at /\ pane.drafted <= call.at
  BY DEF DeliveryInv, BeginInv
<1>4. /\ pane' \in Panes /\ pane'.typed = pane.typed /\ pane'.mine = pane.mine
      /\ pane'.swapped = pane.swapped /\ pane'.drafted \in {pane.drafted, call.at}
      /\ pane'.screen \in {Draft(call.codex, pane.screen), Cleared(call.codex, pane.screen)}
      /\ pane'.drafted = call.at \/ pane'.screen = Cleared(call.codex, pane.screen)
  <2>1. Draft(call.codex, pane.screen) \in Seq(Lines) /\ Cleared(call.codex, pane.screen) \in Seq(Lines)
    BY <1>2, DrawnFacts DEF DeliveryInv, ScreenInv
  <2>2. pane.human + 1 \in Nat /\ pane.rev + 1 \in Nat
    BY <1>2
  <2>3. CASE pane' = [pane EXCEPT !.human = @ + 1, !.rev = @ + 1, !.drafted = call.at,
                                  !.screen = Draft(call.codex, @)]
    BY <1>2, <2>1, <2>2, <2>3 DEF Panes
  <2>4. CASE pane' = [pane EXCEPT !.human = @ + 1, !.rev = @ + 1, !.screen = Cleared(call.codex, @)]
    BY <1>2, <2>1, <2>2, <2>4 DEF Panes
  <2> QED BY <2>3, <2>4 DEF HumanTypes
<1>5. /\ Len(pane'.screen) = Len(pane.screen)
      /\ IF call.codex THEN /\ Len(pane'.screen) >= 3 /\ pane'.screen[Len(pane'.screen)] = "footer"
                            /\ pane'.screen[Len(pane'.screen) - 1] = "blank"
         ELSE Len(pane'.screen) >= 1
      /\ ~Drafted(call.codex, Cleared(call.codex, pane.screen))
  <2>1. IF call.codex THEN /\ Len(pane.screen) >= 3 /\ pane.screen[Len(pane.screen)] = "footer"
                           /\ pane.screen[Len(pane.screen) - 1] = "blank"
        ELSE Len(pane.screen) >= 1
    BY DEF DeliveryInv, ScreenInv
  <2>2. PICK s \in {pane.screen, Draft(call.codex, pane.screen), Cleared(call.codex, pane.screen)} :
          pane'.screen = s
    BY <1>4
  <2>3. /\ s \in Seq(Lines) /\ Len(s) = Len(pane.screen)
        /\ IF call.codex THEN Len(s) >= 3 /\ s[Len(s)] = "footer" /\ s[Len(s) - 1] = "blank" ELSE Len(s) >= 1
        /\ ~Drafted(call.codex, Cleared(call.codex, pane.screen))
    <3>1. pane.screen \in Seq(Lines) /\ call.codex \in BOOLEAN
      BY <1>2
    <3>2. s \in {pane.screen, Draft(call.codex, pane.screen), Cleared(call.codex, pane.screen)}
      OBVIOUS
    <3> QED BY <2>1, <3>1, <3>2, DrawnFacts
  <2> QED BY <2>2, <2>3
<1>6. pane'.drafted >= pane.drafted /\ pane'.drafted <= call.at
  BY <1>2, <1>3, <1>4
<1>7. DeliveryTypeOK'
  BY <1>1, <1>2, <1>4 DEF DeliveryTypeOK, PlanNow
<1>8. ScreenInv'
  BY <1>1, <1>5 DEF ScreenInv
<1>9. BeginInv'
  BY <1>1, <1>3, <1>4, <1>6 DEF BeginInv, DeliveryInv
<1>10. TypedInv' /\ IdentityInv' /\ SeenInv' /\ SeenIsOfTarget'
  BY <1>1, <1>4 DEF DeliveryInv, TypedInv, IdentityInv, SeenInv, SeenIsOfTarget, Sent, Answered, PlanNow, Step
<1>11. ComposerInv'
  <2>1. SUFFICES ASSUME Drafted(call.codex, pane'.screen), NEW q \in Answered
                 PROVE  pane'.drafted > call.at - (call.place - q)
    BY <1>1 DEF ComposerInv, Answered
  <2>2. pane'.drafted = call.at
    BY <1>4, <1>5, <2>1
  <2> QED BY <1>2, <2>2 DEF Answered
<1>12. NoBlindInput' /\ OutcomeIsTrue'
  BY <1>1, <1>2, <1>4, <1>5, <1>6, LaterIsNoBlinder
<1> QED BY <1>7, <1>8, <1>9, <1>10, <1>11, <1>12 DEF DeliveryInv

\* The pane gets another process.
LEMMA TargetReplacedKeeps ==
    ASSUME DeliveryInv, TargetReplaced
    PROVE  DeliveryInv'
<1>1. call.st = "running" /\ UNCHANGED call
  BY DEF TargetReplaced, Disturbed
<1>2. /\ DeliveryTypeOK /\ call.at \in Nat /\ call.place \in Nat /\ pane \in Panes
      /\ pane.swapped \in Nat /\ pane.drafted \in Nat /\ pane.human \in Nat /\ pane.rev \in Nat
  BY <1>1, RunningFacts DEF Panes
<1>3. pane.swapped <= call.at /\ pane.drafted <= call.at
  BY DEF DeliveryInv, BeginInv
<1>4. /\ pane' \in Panes /\ pane'.typed = pane.typed /\ ~pane'.mine
      /\ pane'.swapped = call.at /\ pane'.drafted = pane.drafted /\ pane'.screen = pane.screen
  <2>1. pane' = [pane EXCEPT !.human = @ + 1, !.rev = @ + 1, !.mine = FALSE, !.swapped = call.at]
    BY DEF TargetReplaced
  <2>2. pane.human + 1 \in Nat /\ pane.rev + 1 \in Nat
    BY <1>2
  <2> QED BY <1>2, <2>1, <2>2 DEF Panes
<1>5. DeliveryTypeOK'
  BY <1>1, <1>2, <1>4 DEF DeliveryTypeOK, PlanNow
<1>6. ScreenInv' /\ BeginInv'
  BY <1>1, <1>2, <1>3, <1>4 DEF ScreenInv, BeginInv, DeliveryInv
<1>7. TypedInv' /\ SeenInv' /\ SeenIsOfTarget' /\ ComposerInv'
  BY <1>1, <1>4 DEF DeliveryInv, TypedInv, SeenInv, SeenIsOfTarget, ComposerInv, Sent, Answered, PlanNow, Step
<1>8. IdentityInv'
  <2>1. SUFFICES ASSUME NEW q \in Answered PROVE call.at > call.at - (call.place - q)
    BY <1>1, <1>4 DEF IdentityInv, Answered
  <2> QED BY <1>2 DEF Answered
<1>9. NoBlindInput' /\ OutcomeIsTrue'
  BY <1>1, <1>2, <1>3, <1>4, LaterIsNoBlinder
<1> QED BY <1>5, <1>6, <1>7, <1>8, <1>9 DEF DeliveryInv

\* A call begins, or is refused.
LEMMA ExecuteKeeps ==
    ASSUME DeliveryInv, call.st = "idle",
           NEW wire \in Wires, NEW codex \in BOOLEAN, NEW a \in Actions, NEW b \in Bindings,
           NEW height \in Heights, Execute(wire, codex, a, b, height)
    PROVE  DeliveryInv'
<1>1. call \in Calls /\ pane \in Panes
  BY DEF DeliveryInv, DeliveryTypeOK
<1>2. call = Idle /\ pane.typed = <<>> /\ pane.mine /\ pane.swapped <= call.at /\ pane.drafted <= call.at
  BY DEF DeliveryInv, BeginInv
<1>3. call.unit = 0 /\ call.place = 1 /\ call.at = 1 /\ call.own /\ call.out = "none"
  BY <1>2 DEF Idle
<1>4. /\ Screen(codex, height) \in Seq(Lines)
      /\ LET s == Screen(codex, height) IN
         IF codex THEN Len(s) >= 3 /\ s[Len(s)] = "footer" /\ s[Len(s) - 1] = "blank" ELSE Len(s) >= 1
  <2> DEFINE top == [i \in 1..height |-> IF i % 2 = 1 THEN "output" ELSE "blank"]
  <2>1. height \in Nat /\ height > 0
    BY HeightsAssumption
  <2>2. \A i \in 1..height : top[i] \in Lines
    BY DEF Lines
  <2>3. top \in Seq(Lines) /\ Len(top) = height
    BY <2>1, <2>2
  <2>4. Screen(codex, height) = IF codex THEN top \o <<"prompt", "blank", "footer">> ELSE top \o <<"blank">>
    BY DEF Screen
  <2> HIDE DEF top
  <2>5. <<"prompt", "blank", "footer">> \in Seq(Lines) /\ <<"blank">> \in Seq(Lines)
    BY DEF Lines
  <2>6. CASE codex
    BY <2>1, <2>3, <2>4, <2>5, <2>6
  <2>7. CASE ~codex
    BY <2>1, <2>3, <2>4, <2>5, <2>7
  <2> QED BY <2>6, <2>7
<1>5. /\ pane' \in Panes /\ pane'.screen = Screen(codex, height) /\ pane'.typed = <<>> /\ pane'.mine
      /\ pane'.swapped = pane.swapped /\ pane'.drafted = pane.drafted
  BY <1>1, <1>2, <1>4 DEF Execute, Panes
<1> DEFINE r == Refusal(wire, a, b)
<1>6. r \in {"none", "unsafe", "integration"}
  BY DEF Refusal
<1>7. b.digest \in BOOLEAN
  BY DEF Bindings
<1>8. /\ call' \in Calls /\ call'.wire = wire /\ call'.codex = codex /\ call'.act = a
      /\ call'.unit = 0 /\ call'.place = 1 /\ call'.at = 1 /\ call'.own /\ call'.st \in {"running", "done"}
      /\ call'.out = r /\ (call'.st = "running" <=> r = "none")
  <2> DEFINE c == [call EXCEPT !.wire = wire, !.codex = codex, !.act = a, !.digest = b.digest]
  <2>1. /\ c \in Calls /\ c.wire = wire /\ c.codex = codex /\ c.act = a /\ c.unit = 0 /\ c.place = 1
        /\ c.at = 1 /\ c.own /\ c.out = "none"
    BY <1>1, <1>3, <1>7 DEF Calls
  <2>2. IF r = "none" THEN call' = [c EXCEPT !.st = "running"] ELSE call' = [c EXCEPT !.st = "done", !.out = r]
    BY DEF Execute
  <2> HIDE DEF c, r
  <2>3. CASE r = "none"
    BY <2>1, <2>2, <2>3 DEF Calls
  <2>4. CASE r # "none"
    <3>1. r \in {"none", "unsafe", "integration", "possible", "committed", "captured"} /\ r # "none"
      BY <1>6, <2>4
    <3>2. call' = [c EXCEPT !.st = "done", !.out = r]
      BY <2>2, <2>4
    <3> QED BY <2>1, <3>1, <3>2 DEF Calls
  <2> QED BY <2>3, <2>4
<1> HIDE DEF r
<1>9. DeliveryTypeOK'
  <2>1. PlanNow' = Plan[wire][UnitAt(a, 0)]
    BY <1>8 DEF PlanNow
  <2>2. Len(Units(a)) \in Nat
    BY UnitFacts
  <2>3. UnitAt(a, 0) \in UnitKinds
    BY <2>2, UnitAtFacts
  <2>4. PlanNow' \in Seq(AskRecords) /\ Len(PlanNow') >= 1
    BY <2>1, <2>3, PlanFacts
  <2>5. 0 <= Len(Units(a)) /\ 1 \in 1..Len(PlanNow')
    BY <2>2, <2>4
  <2> QED BY <1>5, <1>8, <2>5 DEF DeliveryTypeOK
<1>10. ScreenInv'
  BY <1>4, <1>5, <1>8 DEF ScreenInv
<1>11. BeginInv'
  BY <1>2, <1>3, <1>5, <1>8 DEF BeginInv
<1>12. TypedInv' /\ IdentityInv' /\ SeenInv' /\ SeenIsOfTarget'
  BY <1>5, <1>8 DEF TypedInv, IdentityInv, SeenInv, SeenIsOfTarget
<1>13. ComposerInv'
  BY <1>8 DEF ComposerInv, Answered
<1>14. NoBlindInput'
  BY <1>5 DEF NoBlindInput
<1>15. OutcomeIsTrue'
  <2>1. True(r, a, <<>>)
    BY <1>6, UnitFacts DEF True, InOrder
  <2>2. <<>> \in Seq(Typings)
    OBVIOUS
  <2>3. pane'.typed \in Seq(Typings) /\ call'.act \in Actions /\ True(call'.out, call'.act, pane'.typed)
    BY <1>5, <1>8, <2>1, <2>2
  <2> QED BY <2>3, OutcomeMeans DEF OutcomeIsTrue
<1> QED BY <1>9, <1>10, <1>11, <1>12, <1>13, <1>14, <1>15 DEF DeliveryInv

-----------------------------------------------------------------------------
(* The theorems.                                                            *)

\* No action begins outside it.
LEMMA DeliveryInitially == DeliveryInit => DeliveryInv
<1>1. SUFFICES ASSUME DeliveryInit PROVE DeliveryInv
  OBVIOUS
<1> DEFINE act == CHOOSE a \in Actions : a.kind = "text"
<1>2. act \in Actions /\ act.kind = "text"
  <2>1. [kind |-> "text", control |-> FALSE, keys |-> <<>>, source |-> "none"] \in Actions
    BY DEF Actions
  <2>2. \E a \in Actions : a.kind = "text"
    BY <2>1
  <2> QED BY <2>2
<1>3. /\ call = Idle /\ pane = [mine |-> TRUE, screen |-> <<"blank">>, rev |-> 0, human |-> 0,
                                swapped |-> 0, drafted |-> 0, typed |-> <<>>]
  BY <1>1 DEF DeliveryInit
<1>4. Idle = [st |-> "idle", wire |-> "tmux", codex |-> FALSE, act |-> act, unit |-> 0, place |-> 1,
              at |-> 1, rev |-> 0, seen |-> <<"blank">>, own |-> TRUE, out |-> "none",
              digest |-> TRUE, why |-> "none"]
  BY DEF Idle
<1> HIDE DEF act
<1>5. <<"blank">> \in Seq(Lines) \ {<<>>} /\ <<>> \in Seq(Typings)
  BY DEF Lines
<1>6. call \in Calls
  BY <1>2, <1>3, <1>4, <1>5 DEF Calls, Wires
<1>7. pane \in Panes
  BY <1>3, <1>5 DEF Panes
<1>8. /\ call.st = "idle" /\ call.wire = "tmux" /\ call.codex = FALSE /\ call.act = act /\ call.unit = 0
      /\ call.place = 1 /\ call.at = 1 /\ call.own /\ call.out = "none"
  BY <1>3, <1>4
<1>9. /\ pane.mine /\ pane.screen = <<"blank">> /\ pane.swapped = 0 /\ pane.drafted = 0 /\ pane.typed = <<>>
  BY <1>3
<1>10. DeliveryTypeOK
  <2>1. PlanNow = Plan["tmux"][UnitAt(act, 0)]
    BY <1>8 DEF PlanNow
  <2>2. Len(Units(act)) \in Nat
    BY <1>2, UnitFacts
  <2>3. UnitAt(act, 0) \in UnitKinds
    BY <1>2, <2>2, UnitAtFacts
  <2>4. PlanNow \in Seq(AskRecords) /\ Len(PlanNow) >= 1
    BY <2>1, <2>3, PlanFacts DEF Wires
  <2> QED BY <1>6, <1>7, <1>8, <2>2, <2>4 DEF DeliveryTypeOK
<1>11. ScreenInv
  BY <1>8, <1>9 DEF ScreenInv
<1>12. BeginInv
  BY <1>3, <1>8, <1>9 DEF BeginInv
<1>13. TypedInv /\ IdentityInv /\ SeenInv /\ SeenIsOfTarget /\ ComposerInv
  BY <1>8 DEF TypedInv, IdentityInv, SeenInv, SeenIsOfTarget, ComposerInv
<1>14. NoBlindInput
  BY <1>9 DEF NoBlindInput
<1>15. OutcomeIsTrue
  <2>1. True("none", act, <<>>)
    BY <1>2, UnitFacts DEF True, InOrder
  <2> QED BY <1>2, <1>5, <1>8, <1>9, <2>1, OutcomeMeans DEF OutcomeIsTrue
<1> QED BY <1>10, <1>11, <1>12, <1>13, <1>14, <1>15 DEF DeliveryInv

\* No step leaves it.
LEMMA DeliveryStep == DeliveryInv /\ [DeliveryNext]_deliveryVars => DeliveryInv'
<1> SUFFICES ASSUME DeliveryInv, [DeliveryNext]_deliveryVars PROVE DeliveryInv'
  OBVIOUS
<1>1. CASE \E wire \in Wires, codex \in BOOLEAN, a \in Actions, b \in Bindings, height \in Heights :
             call.st = "idle" /\ Execute(wire, codex, a, b, height)
  BY <1>1, ExecuteKeeps
<1>2. CASE ValidateIdentity
  BY <1>2, ValidateIdentityKeeps
<1>3. CASE ReadPane
  BY <1>3, ReadPaneKeeps
<1>4. CASE RequireSafe
  BY <1>4, RequireSafeKeeps
<1>5. CASE Send
  BY <1>5, SendKeeps
<1>6. CASE SendUnanswered
  BY <1>6, SendUnansweredKeeps
<1>7. CASE run_bounded \/ call_async \/ call_native
  BY <1>7, RequestFailsKeeps DEF run_bounded, call_async, call_native
<1>8. CASE HumanTypes
  BY <1>8, HumanTypesKeeps
<1>9. CASE TargetReplaced
  BY <1>9, TargetReplacedKeeps
<1>10. CASE UNCHANGED deliveryVars
  <2>1. call' = call /\ pane' = pane
    BY <1>10 DEF deliveryVars
  <2>2. PlanNow' = PlanNow /\ Answered' = Answered /\ Step' = Step
    BY <2>1 DEF PlanNow, Answered, Step
  <2>3. DeliveryTypeOK' /\ ScreenInv' /\ BeginInv' /\ SeenInv'
    BY <2>1, <2>2 DEF DeliveryInv, DeliveryTypeOK, ScreenInv, BeginInv, SeenInv
  <2>4. TypedInv' /\ IdentityInv'
    BY <2>1, <2>2 DEF DeliveryInv, TypedInv, IdentityInv, Sent
  <2>5. ComposerInv' /\ NoBlindInput'
    BY <2>1, <2>2 DEF DeliveryInv, ComposerInv, NoBlindInput, Cutoff
  <2>6. OutcomeIsTrue' /\ SeenIsOfTarget'
    BY <2>1, <2>2 DEF DeliveryInv, OutcomeIsTrue, SeenIsOfTarget
  <2> QED BY <2>3, <2>4, <2>5, <2>6 DEF DeliveryInv
<1> QED BY <1>1, <1>2, <1>3, <1>4, <1>5, <1>6, <1>7, <1>8, <1>9, <1>10 DEF DeliveryNext

\* The inductive invariant, for actions of any length and screens of any height.
THEOREM DeliveryInductive == DeliverySpec => []DeliveryInv
BY DeliveryInitially, DeliveryStep, PTL DEF DeliverySpec

\* Whatever the human and the agent do between two requests, send_literal, send_key
\* and submit_native type only what their last checks speak for.
THEOREM InputIsChecked == DeliverySpec => []NoBlindInput
<1>1. DeliveryInv => NoBlindInput
  BY DEF DeliveryInv
<1> QED BY <1>1, DeliveryInductive, PTL

\* What execute_mux_action returns is what happened: nothing for an error that says
\* so, and every unit, once and in order, for a commit.
THEOREM OutcomeTrue == DeliverySpec => []OutcomeIsTrue
<1>1. DeliveryInv => OutcomeIsTrue
  BY DEF DeliveryInv
<1> QED BY <1>1, DeliveryInductive, PTL

\* The lines that capture_tail returns are the recorded process's.
THEOREM SeenOfTarget == DeliverySpec => []SeenIsOfTarget
<1>1. DeliveryInv => SeenIsOfTarget
  BY DEF DeliveryInv
<1> QED BY <1>1, DeliveryInductive, PTL
=============================================================================
