------------------------- MODULE UserAccountsProofs -------------------------
(***************************************************************************)
(* Theorems about UserAccounts, for any number of workers, names,          *)
(* passwords, requests and faults.  The inductive invariant says, besides  *)
(* the properties, that ids are below the sequence, that what a handler is *)
(* about to answer is stored, and what a registration that is past its     *)
(* check knows of its name.                                                *)
(***************************************************************************)
EXTENDS UserAccounts, TLAPS

PCs == {"idle", "read", "check_name", "sequence", "upsert", "insert",
        "find_user", "success", "failure"}

\* The account a handler would store or has found.
Subject(w) == [id |-> uid[w], name |-> request[w].name,
               password |-> request[w].password]

\* What a handler handles, by where it is.
RequestInv ==
  \A w \in Workers :
    /\ pc[w] = "check_name" => request[w].type = "register"
    /\ pc[w] = "find_user" => request[w].type = "login"
    /\ pc[w] \in {"sequence", "upsert", "insert"}
         => request[w].type \in {"register", "anonymous"}
    /\ pc[w] \in {"idle", "read"} => request[w] = NoRequest

\* The ids that were taken from the sequence are below it.
IdInv ==
  /\ \A u \in users : u.id < seq
  /\ \A w \in Workers : pc[w] = "insert" => uid[w] < seq
  /\ \A t, u \in users : t.id = u.id => t = u

\* A reply that carries an id is about an account that is stored.
SuccessInv ==
  /\ told \subseteq users
  /\ \A w \in Workers : pc[w] = "success" => Subject(w) \in users

Pending(w) ==
  /\ request[w].type = "register"
  /\ pc[w] \in {"sequence", "upsert", "insert"}
  /\ request[w].name \notin raced \cup {NoName}

\* Past its check, a registration is alone with its name, which is still free.
NameInv ==
  \A w \in Workers : Pending(w) =>
    /\ \A u \in users : u.name # request[w].name
    /\ \A v \in Workers : Pending(v) /\ request[v].name = request[w].name => v = w

AnswerInv ==
  \A w \in Workers : pc[w] \notin {"idle", "read"} => answers[w] = 0

Facts ==
  /\ RequestInv /\ IdInv /\ FreshIds /\ SuccessInv
  /\ NameInv /\ UniqueUnlessRaced /\ AnswerInv

AInv == TypeOK /\ Facts

-----------------------------------------------------------------------------
LEMMA RequestFields ==
  ASSUME NEW r \in Request \cup {NoRequest}
  PROVE  /\ r.type \in {"register", "login", "anonymous", "none"}
         /\ r.name \in Names \cup {NoName}
         /\ r.password \in Passwords \cup {NoPassword}
         /\ r.type \in {"anonymous", "none"} <=> r.password = NoPassword
         /\ r \in Request => r.type # "none"
BY NamesAssumption DEF Request, NoRequest

LEMMA InitAccounts ==
  ASSUME Init
  PROVE  AInv
<1> USE BoundsAssumption
<1>1. TypeOK
  BY DEF Init, TypeOK
<1>2. RequestInv /\ IdInv /\ FreshIds /\ SuccessInv
  BY DEF Init, RequestInv, IdInv, FreshIds, SuccessInv, NoRequest
<1>3. NameInv /\ UniqueUnlessRaced /\ AnswerInv
  BY DEF Init, NameInv, UniqueUnlessRaced, AnswerInv, Pending
<1>4. QED
  BY <1>1, <1>2, <1>3 DEF AInv, Facts

-----------------------------------------------------------------------------
\* Type correctness, action by action.
LEMMA TypeStep ==
  ASSUME TypeOK, RequestInv, [Next]_vars
  PROVE  TypeOK'
<1> USE BoundsAssumption DEF TypeOK, database, history, counters
<1>1. ASSUME NEW w \in Workers, NEW label \in PCs, Leave(w, label)
      PROVE  /\ pc' \in [Workers -> PCs]
             /\ request' \in [Workers -> Request \cup {NoRequest}]
             /\ uid' \in [Workers -> Nat]
  BY <1>1 DEF Leave, Goto, PCs
<1>2. ASSUME NEW w \in Workers, NEW label \in PCs, Goto(w, label)
      PROVE  pc' \in [Workers -> PCs]
  BY <1>2 DEF Goto, PCs
<1>3. {"idle", "read", "check_name", "sequence", "upsert", "insert", "find_user",
       "success", "failure"} = PCs
  BY DEF PCs
<1>4. ASSUME NEW w \in Workers, Accept(w)
      PROVE  TypeOK'
  BY <1>2, <1>3, <1>4 DEF Accept, PCs
<1>5. ASSUME NEW w \in Workers, Disconnect(w)
      PROVE  TypeOK'
  BY <1>1, <1>3, <1>5 DEF Disconnect, Close, PCs
<1>6. ASSUME NEW w \in Workers, NEW r \in Request, Receive(w, r)
      PROVE  TypeOK'
  <2>1. [register |-> "check_name", login |-> "find_user",
         anonymous |-> "sequence"][r.type] \in PCs
    BY DEF Request, PCs
  <2>2. requests' \in 0 .. MaxRequests /\ 0 \in Nat
    BY <1>6 DEF Receive
  <2>3. QED
    BY <1>2, <1>3, <1>6, <2>1, <2>2 DEF Receive
<1>7. ASSUME NEW w \in Workers, CheckName(w)
      PROVE  TypeOK'
  <2>1. request[w].name \in Names \cup {NoName}
    BY RequestFields
  <2>2. QED
    BY <1>2, <1>3, <1>7, <2>1 DEF CheckName, PCs
<1>8. ASSUME NEW w \in Workers, GetNextSequence(w)
      PROVE  TypeOK'
  BY <1>2, <1>3, <1>8 DEF GetNextSequence, PCs
<1>9. ASSUME NEW w \in Workers, FindNoSequence(w)
      PROVE  TypeOK'
  BY <1>2, <1>3, <1>9 DEF FindNoSequence, PCs
<1>10. ASSUME NEW w \in Workers, UpsertSequence(w)
       PROVE  TypeOK'
  BY <1>2, <1>3, <1>10 DEF UpsertSequence, PCs
<1>11. ASSUME NEW w \in Workers, InsertUser(w)
       PROVE  TypeOK'
  <2>1. Subject(w) \in Account
    BY RequestFields DEF Subject, Account
  <2>2. QED
    BY <1>2, <1>3, <1>11, <2>1 DEF InsertUser, PCs, Subject
<1>12. ASSUME NEW w \in Workers, InsertThrows(w), UNCHANGED <<database, history, answers>>,
              requests' \in 0 .. MaxRequests, faults' \in 0 .. MaxFaults
       PROVE  TypeOK'
  BY <1>1, <1>2, <1>3, <1>12 DEF InsertThrows, Close, PCs
<1>13. ASSUME NEW w \in Workers, DuplicateId(w)
       PROVE  TypeOK'
  BY <1>12, <1>13 DEF DuplicateId
<1>14. ASSUME NEW w \in Workers, FindUser(w)
       PROVE  TypeOK'
  <2>1. \A u \in users : u.id \in Nat
    BY DEF Account
  <2>2. QED
    BY <1>1, <1>2, <1>3, <1>14, <2>1 DEF FindUser, Named, Return, PCs
<1>15. ASSUME NEW w \in Workers, ReplySuccess(w)
       PROVE  TypeOK'
  <2>1. Subject(w) \in Account
    BY RequestFields DEF Subject, Account
  <2>2. answers' \in [Workers -> Nat] /\ told' \in SUBSET Account
    BY <1>15, <2>1 DEF ReplySuccess, Subject
  <2>3. QED
    BY <1>1, <1>3, <1>15, <2>2 DEF ReplySuccess, Return, PCs
<1>16. ASSUME NEW w \in Workers, ReplyFailure(w)
       PROVE  TypeOK'
  <2>1. answers' \in [Workers -> Nat]
    BY <1>16 DEF ReplyFailure
  <2>2. QED
    BY <1>1, <1>3, <1>16, <2>1 DEF ReplyFailure, Return, PCs
<1>17. ASSUME NEW w \in Workers, DatabaseError(w)
       PROVE  TypeOK'
  <2>1. faults' \in 0 .. MaxFaults
    BY <1>17 DEF DatabaseError
  <2>2. CASE Close(w)
    BY <1>1, <1>3, <1>17, <2>1, <2>2 DEF DatabaseError, Close, PCs
  <2>3. CASE InsertThrows(w)
    BY <1>12, <1>17, <2>1, <2>3 DEF DatabaseError
  <2>4. QED
    BY <1>17, <2>2, <2>3 DEF DatabaseError
<1>18. CASE Crash
  <2>1. faults' \in 0 .. MaxFaults /\ 0 \in Nat
    BY <1>18 DEF Crash
  <2>2. QED
    BY <1>18, <2>1 DEF Crash
<1>19. CASE UNCHANGED vars
  BY <1>19 DEF vars
<1>20. QED
  BY <1>4, <1>5, <1>6, <1>7, <1>8, <1>9, <1>10, <1>11, <1>13, <1>14, <1>15, <1>16,
     <1>17, <1>18, <1>19 DEF Next

-----------------------------------------------------------------------------
\* A handler that ends, or fails, leaves what is known of the others.
LEMMA LeaveStep ==
  ASSUME AInv, NEW w \in Workers, NEW label \in {"idle", "read"}, Leave(w, label),
         UNCHANGED <<database, raced>>, told' \subseteq users,
         \A v \in Workers \ {w} : answers'[v] = answers[v]
  PROVE  Facts'
<1> USE DEF AInv, Facts, Leave, Goto, database, TypeOK
<1>1. RequestInv' /\ AnswerInv'
  BY DEF RequestInv, AnswerInv
<1>2. IdInv' /\ FreshIds'
  BY DEF IdInv, FreshIds, IdTaken
<1>3. SuccessInv'
  BY DEF SuccessInv, Subject
<1>4. NameInv' /\ UniqueUnlessRaced'
  BY DEF NameInv, UniqueUnlessRaced, Pending
<1>5. QED
  BY <1>1, <1>2, <1>3, <1>4

LEMMA FailStep ==
  ASSUME AInv, NEW w \in Workers, pc[w] \notin {"idle", "read"}, Goto(w, "failure"),
         UNCHANGED <<request, uid, database, history, answers>>
  PROVE  Facts'
<1> USE DEF AInv, Facts, Goto, database, history, TypeOK
<1>1. RequestInv' /\ AnswerInv'
  BY DEF RequestInv, AnswerInv
<1>2. IdInv' /\ FreshIds'
  BY DEF IdInv, FreshIds, IdTaken
<1>3. SuccessInv'
  BY DEF SuccessInv, Subject
<1>4. NameInv' /\ UniqueUnlessRaced'
  BY DEF NameInv, UniqueUnlessRaced, Pending
<1>5. QED
  BY <1>1, <1>2, <1>3, <1>4

LEMMA ThrowStep ==
  ASSUME AInv, NEW w \in Workers, pc[w] = "insert", InsertThrows(w),
         UNCHANGED <<database, history, answers>>
  PROVE  Facts'
<1>1. CASE Goto(w, "failure") /\ UNCHANGED <<request, uid>>
  BY <1>1, FailStep
<1>2. CASE Close(w)
  BY <1>2, LeaveStep DEF Close, history, AInv, Facts, SuccessInv
<1>3. QED
  BY <1>1, <1>2 DEF InsertThrows

\* The steps of connections, and the end of a handler.
LEMMA ConnectionSteps ==
  ASSUME AInv, NEW w \in Workers,
         \/ Accept(w) \/ Disconnect(w) \/ \E r \in Request : Receive(w, r)
         \/ ReplySuccess(w) \/ ReplyFailure(w) \/ DatabaseError(w)
  PROVE  Facts'
<1> USE DEF AInv, Facts, database, history, counters
<1>1. CASE Accept(w)
  <2> USE DEF Accept, Goto, TypeOK
  <2>1. RequestInv' /\ AnswerInv'
    BY <1>1 DEF RequestInv, AnswerInv
  <2>2. IdInv' /\ FreshIds' /\ SuccessInv'
    BY <1>1 DEF IdInv, FreshIds, IdTaken, SuccessInv, Subject
  <2>3. NameInv' /\ UniqueUnlessRaced'
    BY <1>1 DEF NameInv, UniqueUnlessRaced, Pending
  <2>4. QED
    BY <2>1, <2>2, <2>3
<1>2. CASE Disconnect(w)
  BY <1>2, LeaveStep DEF Disconnect, Close, SuccessInv
<1>3. ASSUME NEW r \in Request, Receive(w, r)
      PROVE  Facts'
  <2> DEFINE label == [register |-> "check_name", login |-> "find_user",
                       anonymous |-> "sequence"][r.type]
  <2>1. /\ pc' = [pc EXCEPT ![w] = label] /\ request' = [request EXCEPT ![w] = r]
        /\ answers' = [answers EXCEPT ![w] = 0]
        /\ UNCHANGED <<uid, users, seq, told, raced>>
    BY <1>3 DEF Receive, Goto
  <2>2. \/ r.type = "register" /\ label = "check_name"
        \/ r.type = "login" /\ label = "find_user"
        \/ r.type = "anonymous" /\ label = "sequence"
    BY DEF Request
  <2> HIDE DEF label
  <2>3. RequestInv' /\ AnswerInv'
    BY <2>1, <2>2 DEF RequestInv, AnswerInv, TypeOK
  <2>4. IdInv' /\ FreshIds' /\ SuccessInv'
    BY <2>1, <2>2 DEF IdInv, FreshIds, IdTaken, SuccessInv, Subject, TypeOK
  <2>5. NameInv' /\ UniqueUnlessRaced'
    BY <2>1, <2>2 DEF NameInv, UniqueUnlessRaced, Pending, TypeOK
  <2>6. QED
    BY <2>3, <2>4, <2>5
<1>4. CASE ReplySuccess(w)
  <2>1. told' \subseteq users
    BY <1>4 DEF ReplySuccess, SuccessInv, Subject
  <2>2. \A v \in Workers \ {w} : answers'[v] = answers[v]
    BY <1>4 DEF ReplySuccess, TypeOK
  <2>3. QED
    BY <1>4, <2>1, <2>2, LeaveStep DEF ReplySuccess, Return
<1>5. CASE ReplyFailure(w)
  <2>1. \A v \in Workers \ {w} : answers'[v] = answers[v]
    BY <1>5 DEF ReplyFailure, TypeOK
  <2>2. QED
    BY <1>5, <2>1, LeaveStep DEF ReplyFailure, Return, SuccessInv
<1>6. CASE DatabaseError(w)
  <2>1. CASE Close(w)
    BY <1>6, <2>1, LeaveStep DEF DatabaseError, Close, SuccessInv
  <2>2. CASE pc[w] = "insert" /\ InsertThrows(w)
    BY <1>6, <2>2, ThrowStep DEF DatabaseError
  <2>3. QED
    BY <1>6, <2>1, <2>2 DEF DatabaseError
<1>7. QED
  BY <1>1, <1>2, <1>3, <1>4, <1>5, <1>6

\* The steps that check, take ids and insert.
LEMMA AccountSteps ==
  ASSUME AInv, NEW w \in Workers,
         \/ CheckName(w) \/ GetNextSequence(w) \/ FindNoSequence(w)
         \/ UpsertSequence(w) \/ InsertUser(w) \/ DuplicateId(w) \/ FindUser(w)
  PROVE  Facts'
<1> USE DEF AInv, Facts, database, history, counters
<1>1. CASE CheckName(w)
  <2>1. CASE /\ Named(request[w].name) = {} /\ Goto(w, "sequence")
             /\ raced' = IF Registering(request[w].name)
                         THEN raced \cup {request[w].name} ELSE raced
    <3> USE DEF CheckName, Goto, TypeOK
    <3>1. RequestInv' /\ AnswerInv'
      BY <1>1, <2>1 DEF RequestInv, AnswerInv
    <3>2. IdInv' /\ FreshIds' /\ SuccessInv'
      BY <1>1, <2>1 DEF IdInv, FreshIds, IdTaken, SuccessInv, Subject
    <3>3. \A v \in Workers : Pending(v)' => Pending(v) \/ v = w
      BY <1>1, <2>1 DEF Pending
    <3>4. Pending(w)' => \A v \in Workers : Pending(v) => request[v].name # request[w].name
      BY <1>1, <2>1 DEF Pending, Registering
    <3>5. \A u \in users : u.name # request[w].name
      BY <2>1 DEF Named
    <3>6. /\ request' = request /\ users' = users
      BY <1>1
    <3>7. NameInv'
      BY <3>3, <3>4, <3>5, <3>6 DEF NameInv
    <3>8. UniqueUnlessRaced'
      BY <1>1, <2>1 DEF UniqueUnlessRaced
    <3>9. QED
      BY <3>1, <3>2, <3>7, <3>8
  <2>2. CASE Goto(w, "failure") /\ UNCHANGED raced
    BY <1>1, <2>2, FailStep DEF CheckName
  <2>3. QED
    BY <1>1, <2>1, <2>2 DEF CheckName
<1>2. CASE GetNextSequence(w)
  <2> USE DEF GetNextSequence, Goto, TypeOK
  <2>1. RequestInv' /\ AnswerInv'
    BY <1>2 DEF RequestInv, AnswerInv
  <2>2. IdInv'
    BY <1>2 DEF IdInv, Account
  <2>3. FreshIds'
    BY <1>2 DEF IdInv, FreshIds, IdTaken
  <2>4. SuccessInv'
    BY <1>2 DEF SuccessInv, Subject
  <2>5. NameInv' /\ UniqueUnlessRaced'
    BY <1>2 DEF NameInv, UniqueUnlessRaced, Pending
  <2>6. QED
    BY <2>1, <2>2, <2>3, <2>4, <2>5
<1>3. CASE FindNoSequence(w)
  <2> USE DEF FindNoSequence, Goto, TypeOK
  <2>1. RequestInv' /\ AnswerInv'
    BY <1>3 DEF RequestInv, AnswerInv
  <2>2. IdInv' /\ FreshIds' /\ SuccessInv'
    BY <1>3 DEF IdInv, FreshIds, IdTaken, SuccessInv, Subject
  <2>3. NameInv' /\ UniqueUnlessRaced'
    BY <1>3 DEF NameInv, UniqueUnlessRaced, Pending
  <2>4. QED
    BY <2>1, <2>2, <2>3
<1>4. CASE UpsertSequence(w)
  <2> USE DEF UpsertSequence, Goto, TypeOK
  <2>1. RequestInv' /\ AnswerInv'
    BY <1>4 DEF RequestInv, AnswerInv
  <2>2. seq' \in Nat /\ seq' >= seq /\ seq' > 0
    BY <1>4
  <2>3. IdInv'
    BY <1>4, <2>2 DEF IdInv, Account
  <2>4. FreshIds' /\ SuccessInv'
    BY <1>4 DEF FreshIds, IdTaken, SuccessInv, Subject
  <2>5. NameInv' /\ UniqueUnlessRaced'
    BY <1>4 DEF NameInv, UniqueUnlessRaced, Pending
  <2>6. QED
    BY <2>1, <2>3, <2>4, <2>5
<1>5. CASE InsertUser(w)
  <2>1. /\ users' = users \cup {Subject(w)} /\ pc[w] = "insert"
        /\ pc' = [pc EXCEPT ![w] = "success"]
        /\ UNCHANGED <<request, uid, seq, told, raced, answers>>
        /\ \A u \in users : u.id # uid[w]
    BY <1>5 DEF InsertUser, Goto, Subject, IdTaken
  <2>2. /\ Subject(w).id = uid[w] /\ Subject(w).name = request[w].name
        /\ \A v \in Workers : Subject(v)' = Subject(v)
    BY <2>1 DEF Subject
  <2>3. RequestInv' /\ AnswerInv'
    BY <2>1 DEF RequestInv, AnswerInv, TypeOK
  <2>4. IdInv'
    BY <2>1, <2>2 DEF IdInv, TypeOK
  <2>5. FreshIds'
    BY <2>1, <2>2 DEF FreshIds, IdTaken, TypeOK
  <2>6. SuccessInv'
    BY <2>1, <2>2 DEF SuccessInv, TypeOK
  <2>7. Pending(w) \/ request[w].name \in raced \cup {NoName}
    <3>1. request[w].type = "anonymous" => request[w].name = NoName
      BY DEF TypeOK, Request, NoRequest
    <3>2. QED
      BY <3>1, <2>1 DEF Pending, RequestInv
  <2>8. /\ \A v \in Workers : Pending(v)' => Pending(v) /\ v # w
    BY <2>1 DEF Pending, TypeOK
  <2>9. NameInv'
    <3> SUFFICES ASSUME NEW v \in Workers, Pending(v)'
                 PROVE  /\ \A u \in users' : u.name # request'[v].name
                        /\ \A z \in Workers :
                             Pending(z)' /\ request'[z].name = request'[v].name => z = v
      BY DEF NameInv
    <3>1. Pending(v) /\ v # w /\ request' = request
      BY <2>1, <2>8
    <3>2. request[v].name # request[w].name
      BY <2>7, <3>1 DEF NameInv, Pending
    <3>3. QED
      BY <2>1, <2>2, <2>8, <3>1, <3>2 DEF NameInv
  <2>10. UniqueUnlessRaced'
    BY <2>1, <2>2, <2>7 DEF NameInv, UniqueUnlessRaced
  <2>11. QED
    BY <2>3, <2>4, <2>5, <2>6, <2>9, <2>10
<1>6. CASE DuplicateId(w)
  BY <1>6, ThrowStep DEF DuplicateId
<1>7. CASE FindUser(w)
  <2>1. pc[w] = "find_user" /\ UNCHANGED <<users, seq, told, raced, answers>>
    BY <1>7 DEF FindUser
  <2>2. CASE Goto(w, "failure") /\ UNCHANGED <<request, uid>>
    BY <2>1, <2>2, FailStep
  <2>3. CASE Return(w)
    BY <2>1, <2>3, LeaveStep DEF Return, SuccessInv
  <2>4. ASSUME NEW u \in Named(request[w].name), u.password = request[w].password,
               uid' = [uid EXCEPT ![w] = u.id], Goto(w, "success"), UNCHANGED request
        PROVE  Facts'
    <3> USE DEF Goto, TypeOK
    <3>1. RequestInv' /\ AnswerInv'
      BY <2>1, <2>4 DEF RequestInv, AnswerInv
    <3>2. IdInv' /\ FreshIds'
      BY <2>1, <2>4 DEF IdInv, FreshIds, IdTaken
    <3>3. Subject(w)' = u /\ u \in users
      BY <2>4 DEF Subject, Named, Account
    <3>4. \A v \in Workers \ {w} : Subject(v)' = Subject(v) /\ pc'[v] = pc[v]
      BY <2>4 DEF Subject
    <3>5. SuccessInv'
      BY <2>1, <3>3, <3>4 DEF SuccessInv
    <3>6. NameInv' /\ UniqueUnlessRaced'
      BY <2>1, <2>4 DEF NameInv, UniqueUnlessRaced, Pending
    <3>7. QED
      BY <3>1, <3>2, <3>5, <3>6
  <2>5. QED
    BY <1>7, <2>2, <2>3, <2>4 DEF FindUser
<1>8. QED
  BY <1>1, <1>2, <1>3, <1>4, <1>5, <1>6, <1>7

\* A crash ends every handler.
LEMMA CrashStep ==
  ASSUME AInv, Crash
  PROVE  Facts'
<1> USE DEF AInv, Facts, Crash, database, history
<1>1. RequestInv' /\ AnswerInv' /\ IdInv' /\ FreshIds'
  BY DEF RequestInv, AnswerInv, IdInv, FreshIds, NoRequest
<1>2. SuccessInv'
  BY DEF SuccessInv
<1>3. NameInv' /\ UniqueUnlessRaced'
  BY DEF NameInv, UniqueUnlessRaced, Pending
<1>4. QED
  BY <1>1, <1>2, <1>3

-----------------------------------------------------------------------------
\* The inductive invariant of the accounts.
THEOREM AccountsInvariant == Spec => []AInv
<1>1. Init => AInv
  BY InitAccounts
<1>2. AInv /\ [Next]_vars => AInv'
  <2> SUFFICES ASSUME AInv, [Next]_vars
               PROVE  AInv'
    OBVIOUS
  <2>1. TypeOK'
    BY TypeStep DEF AInv, Facts
  <2>2. CASE Next
    BY <2>1, <2>2, ConnectionSteps, AccountSteps, CrashStep DEF Next, AInv
  <2>3. CASE UNCHANGED vars
    BY <2>1, <2>3 DEF vars, database, history, AInv, Facts, RequestInv, IdInv, FreshIds,
       IdTaken, SuccessInv, Subject, NameInv, Pending, UniqueUnlessRaced, AnswerInv
  <2>4. QED
    BY <2>2, <2>3
<1>3. QED
  BY <1>1, <1>2, PTL DEF Spec

\* Type correctness of the accounts.
THEOREM AccountsTypeOK == Spec => []TypeOK
<1>1. AInv => TypeOK
  BY DEF AInv
<1>2. QED
  BY <1>1, AccountsInvariant, PTL

\* getNextSequence: but for the 0 of the first calls, no two handlers are about
\* to insert the same id, and none inserts one that is taken.
THEOREM IdsAreFresh == Spec => []FreshIds
<1>1. AInv => FreshIds
  BY DEF AInv, Facts
<1>2. QED
  BY <1>1, AccountsInvariant, PTL

\* Registration and login: an id that was sent is that of one stored account,
\* with the name and the password it was sent for.
THEOREM IdsStandForAccounts == Spec => []IdsTellUsersApart
<1>1. AInv => IdsTellUsersApart
  BY DEF AInv, Facts, IdInv, SuccessInv, IdsTellUsersApart
<1>2. QED
  BY <1>1, AccountsInvariant, PTL

\* The check of handle_register_request keeps every name unique that was not
\* checked by two registrations at once.
THEOREM NamesAreUnique == Spec => []UniqueUnlessRaced
<1>1. AInv => UniqueUnlessRaced
  BY DEF AInv, Facts
<1>2. QED
  BY <1>1, AccountsInvariant, PTL

\* Every handler that ends replies exactly once, but for the login that finds
\* an account without a password.
THEOREM HandlersAnswer == Spec => AnsweredOnce
<1> DEFINE Answered(w) ==
             \/ answers'[w] = 1
             \/ /\ request[w].type = "login" /\ answers'[w] = 0
                /\ \E u \in Named(request[w].name) : u.password = NoPassword
<1>1. ASSUME AInv, NEW w \in Workers, [Next]_vars,
             pc[w] \notin {"idle", "read"}, pc'[w] = "read"
      PROVE  Answered(w)
  <2> USE <1>1 DEF AInv, Facts, TypeOK, Goto, Leave, Close, Return
  <2>1. answers[w] = 0
    BY DEF AnswerInv
  <2>2. ASSUME NEW v \in Workers,
               \/ Accept(v) \/ Disconnect(v) \/ CheckName(v) \/ GetNextSequence(v)
               \/ FindNoSequence(v) \/ UpsertSequence(v) \/ InsertUser(v)
               \/ DuplicateId(v) \/ DatabaseError(v)
        PROVE  Answered(w)
    <3>1. PICK label \in PCs \ {"read"} : pc' = [pc EXCEPT ![v] = label] \/ Accept(v)
      BY <2>2 DEF PCs, Disconnect, CheckName, GetNextSequence, FindNoSequence,
         UpsertSequence, InsertUser, DuplicateId, DatabaseError, InsertThrows
    <3>2. CASE Accept(v)
      BY <3>2 DEF Accept
    <3>3. QED
      BY <3>1, <3>2
  <2>3. ASSUME NEW v \in Workers, NEW r \in Request, Receive(v, r)
        PROVE  Answered(w)
    <3>1. [register |-> "check_name", login |-> "find_user",
           anonymous |-> "sequence"][r.type] # "read"
      BY DEF Request
    <3>2. QED
      BY <2>3, <3>1 DEF Receive
  <2>4. ASSUME NEW v \in Workers, FindUser(v)
        PROVE  Answered(w)
    <3>1. v = w /\ Return(w)
      BY <2>4 DEF FindUser
    <3>2. request[w].type = "login" /\ answers' = answers
      BY <2>4, <3>1 DEF FindUser, RequestInv
    <3>3. \E u \in Named(request[w].name) : u.password = NoPassword
      BY <2>4, <3>1 DEF FindUser
    <3>4. QED
      BY <2>1, <3>2, <3>3
  <2>5. ASSUME NEW v \in Workers, ReplySuccess(v) \/ ReplyFailure(v)
        PROVE  Answered(w)
    <3>1. v = w
      BY <2>5 DEF ReplySuccess, ReplyFailure
    <3>2. QED
      BY <2>1, <2>5, <3>1 DEF ReplySuccess, ReplyFailure
  <2>6. CASE Crash
    BY <2>6 DEF Crash
  <2>7. CASE UNCHANGED vars
    BY <2>7 DEF vars
  <2>8. QED
    BY <2>2, <2>3, <2>4, <2>5, <2>6, <2>7 DEF Next
<1>2. AInv /\ [Next]_vars
        => [\A w \in Workers : pc[w] \notin {"idle", "read"} /\ pc'[w] = "read"
              => Answered(w)]_vars
  BY <1>1
<1> HIDE DEF Answered
<1>3. Spec => [][\A w \in Workers : pc[w] \notin {"idle", "read"} /\ pc'[w] = "read"
                   => Answered(w)]_vars
  BY <1>2, AccountsInvariant, PTL DEF Spec
<1>4. QED
  BY <1>3 DEF AnsweredOnce, Answered
=============================================================================
