---------------------------- MODULE AdminProofs -----------------------------
(***************************************************************************)
(* Proofs about the admin side.                                            *)
(*                                                                         *)
(* Accounts: who is linked with which Google account and which business    *)
(* has an admin, for any number of admins, businesses, accounts, requests  *)
(* and failing statements.  LinkInv is inductive with the types: that      *)
(* google_sub is UNIQUE (SubsApart), and that a login which has found or   *)
(* linked its admin is right about the account (LoginsHold), unless the    *)
(* link was changed under it.                                              *)
(*                                                                         *)
(* Programs, which the admins edit in their panel: the second half of the  *)
(* module proves that a program is whole, and has the fields it was asked  *)
(* to, however the tabs interleave.                                        *)
(***************************************************************************)
EXTENDS Accounts, Programs, TLAPS

-----------------------------------------------------------------------------
(* Types *)

(* Steps that know the admin they are about, and the account. *)
AdminPCs == {"loginLink", "refreshProfile", "getByID", "checkLink", "link"}

SubPCs == {"getByGoogleSub", "getByEmail"} \cup AdminPCs

(* What a request that is at step s holds. *)
JobFits(s, j) ==
    /\ s \in {"slugExists", "createCustomer"} => j.slug \in Slugs /\ j.email \in Emails
    /\ IF s = "create" THEN j.email \in Emails /\ j.customer \in Businesses
       ELSE j.customer = Nil
    /\ s \in SubPCs => j.sub \in Subs
    /\ s \in AdminPCs => j.admin \in Registered

JobsOK == \A p \in Procs : JobFits(pc[p], job[p])

TypeInv == TypeOK /\ JobsOK

LEMMA NoAdminType == NoAdmin \notin Admin
BY AccountsAssumption DEF NoAdmin, Admin

LEMMA NoJobType == NoJob \in Job /\ JobFits("idle", NoJob)
<1>1. 0 \in 0 .. (SlugAttempts - 1)
    BY AccountsAssumption
<1>2. NoJob \in Job
    BY <1>1 DEF NoJob, Job
<1> QED BY <1>2 DEF NoJob, JobFits, SubPCs, AdminPCs

LEMMA RowType ==
    ASSUME TypeInv, NEW a \in AdminIds
    PROVE  /\ admins[a] \in Admin \cup {NoAdmin}
           /\ a \in Registered <=> admins[a] \in Admin
BY NoAdminType DEF TypeInv, TypeOK, Registered

(* What no step takes back. *)
Grows == Businesses \subseteq Businesses' /\ Registered \subseteq Registered'

LEMMA SameRows ==
    ASSUME UNCHANGED <<customers, admins>>
    PROVE  Grows /\ Businesses' = Businesses /\ Registered' = Registered
BY DEF Grows, Businesses, Registered

LEMMA FitsMove ==
    ASSUME NEW s, NEW j, JobFits(s, j), Grows
    PROVE  JobFits(s, j)'
BY DEF JobFits, Grows

LEMMA JobsMove ==
    ASSUME TypeInv, Grows, NEW p \in Procs, NEW s \in PCs, NEW j \in Job, JobFits(s, j)',
           GotoWith(p, s, j)
    PROVE  pc' \in [Procs -> PCs] /\ job' \in [Procs -> Job] /\ JobsOK'
<1>1. pc' \in [Procs -> PCs] /\ job' \in [Procs -> Job]
    BY DEF TypeInv, TypeOK, GotoWith
<1>2. ASSUME NEW q \in Procs PROVE JobFits(pc[q], job[q])'
    <2>1. PICK t, k : t = pc'[q] /\ k = job'[q]
        OBVIOUS
    <2>2. CASE q = p
        <3>1. t = s /\ k = j
            BY <2>1, <2>2 DEF TypeInv, TypeOK, GotoWith
        <3> QED BY <2>1, <3>1 DEF JobFits
    <2>3. CASE q # p
        <3>1. t = pc[q] /\ k = job[q]
            BY <2>1, <2>3 DEF TypeInv, TypeOK, GotoWith
        <3>2. JobFits(t, k)
            BY <3>1 DEF TypeInv, JobsOK
        <3>3. JobFits(t, k)'
            BY <3>2, FitsMove
        <3> QED BY <2>1, <3>3 DEF JobFits
    <2> QED BY <2>2, <2>3
<1> QED BY <1>1, <1>2 DEF JobsOK

LEMMA FinishMove ==
    ASSUME TypeInv, Grows, NEW p \in Procs, Finish(p)
    PROVE  pc' \in [Procs -> PCs] /\ job' \in [Procs -> Job] /\ JobsOK'
<1>1. "idle" \in PCs
    BY DEF PCs
<1>2. JobFits("idle", NoJob)'
    BY NoJobType, FitsMove
<1> QED BY <1>1, <1>2, NoJobType, JobsMove DEF Finish

LEMMA StayMove ==
    ASSUME TypeInv, Grows, UNCHANGED <<pc, job>>
    PROVE  pc' \in [Procs -> PCs] /\ job' \in [Procs -> Job] /\ JobsOK'
<1>1. pc' \in [Procs -> PCs] /\ job' \in [Procs -> Job]
    BY DEF TypeInv, TypeOK
<1>2. ASSUME NEW q \in Procs PROVE JobFits(pc[q], job[q])'
    <2>1. PICK t, k : t = pc[q] /\ k = job[q]
        OBVIOUS
    <2>2. JobFits(t, k)'
        BY <2>1, FitsMove DEF TypeInv, JobsOK
    <2> QED BY <2>1, <2>2 DEF JobFits
<1> QED BY <1>1, <1>2 DEF JobsOK

LEMMA FailureType ==
    ASSUME TypeInv, UNCHANGED failures \/ StatementFails
    PROVE  failures' \in 0 .. MaxFailures
BY AccountsAssumption DEF TypeInv, TypeOK, StatementFails

(* A step that writes no row. *)
LEMMA TypeStill ==
    ASSUME TypeInv, UNCHANGED <<customers, admins, history>>,
           UNCHANGED failures \/ StatementFails,
           pc' \in [Procs -> PCs], job' \in [Procs -> Job], JobsOK'
    PROVE  TypeInv'
<1>1. TypeOK'
    BY FailureType DEF TypeInv, TypeOK, history
<1> QED BY <1>1 DEF TypeInv

LEMMA HandlerType ==
    ASSUME TypeInv, NEW p \in Procs
    PROVE  job[p] \in Job /\ pc[p] \in PCs /\ JobFits(pc[p], job[p])
BY DEF TypeInv, TypeOK, JobsOK

LEMMA JobFields ==
    ASSUME NEW j \in Job
    PROVE  /\ j.email \in Emails \cup {Nil} /\ j.sub \in Subs \cup {Nil}
           /\ j.slug \in Slugs \cup {Nil} /\ j.tries \in Nat /\ j.tries <= SlugAttempts - 1
           /\ j.customer \in CustomerIds \cup {Nil} /\ j.admin \in AdminIds \cup {Nil}
BY AccountsAssumption DEF Job

(* A registration draws a slug. *)
LEMMA DrawMove ==
    ASSUME TypeInv, Grows, NEW p \in Procs, NEW j \in Job, j.email \in Emails, j.customer = Nil,
           Drawn(p, j)
    PROVE  pc' \in [Procs -> PCs] /\ job' \in [Procs -> Job] /\ JobsOK'
<1>1. PICK s \in Slugs : GotoWith(p, "slugExists", [j EXCEPT !.slug = s])
    BY DEF Drawn
<1>2. PICK k : k = [j EXCEPT !.slug = s]
    OBVIOUS
<1>3. k \in Job /\ k.slug = s /\ k.email = j.email /\ k.customer = j.customer
    BY <1>2 DEF Job
<1>4. JobFits("slugExists", k)'
    BY <1>3 DEF JobFits, SubPCs, AdminPCs
<1>5. "slugExists" \in PCs
    BY DEF PCs
<1> QED BY <1>1, <1>2, <1>3, <1>4, <1>5, JobsMove

LEMMA TypeOnboard ==
    ASSUME TypeInv, NEW p \in Procs, Onboard(p)
    PROVE  TypeInv'
<1>1. PICK e \in Emails : Drawn(p, [NoJob EXCEPT !.email = e])
    BY DEF Onboard
<1>2. PICK j : j = [NoJob EXCEPT !.email = e]
    OBVIOUS
<1>3. j \in Job /\ j.email = e /\ j.customer = Nil
    BY <1>2, NoJobType DEF NoJob, Job
<1> QED BY <1>1, <1>2, <1>3, DrawMove, SameRows, TypeStill DEF Onboard

LEMMA TypeGoogleOnboard ==
    ASSUME TypeInv, NEW p \in Procs, GoogleOnboard(p)
    PROVE  TypeInv'
<1>1. PICK s \in Subs : Drawn(p, [NoJob EXCEPT !.email = EmailOf[s], !.sub = s])
    BY DEF GoogleOnboard
<1>2. PICK e \in Emails : e = EmailOf[s]
    BY AccountsAssumption
<1>3. PICK j : j = [NoJob EXCEPT !.email = e, !.sub = s]
    OBVIOUS
<1>4. j \in Job /\ j.email = e /\ j.customer = Nil
    BY <1>3, NoJobType DEF NoJob, Job
<1> QED BY <1>1, <1>2, <1>3, <1>4, DrawMove, SameRows, TypeStill DEF GoogleOnboard

LEMMA TypeRegister ==
    ASSUME TypeInv, NEW p \in Procs, Register(p)
    PROVE  TypeInv'
<1>1. PICK e \in Emails, c \in Businesses :
          GotoWith(p, "create", [NoJob EXCEPT !.email = e, !.customer = c])
    BY DEF Register, Begin
<1>2. PICK j : j = [NoJob EXCEPT !.email = e, !.customer = c]
    OBVIOUS
<1>3. c \in CustomerIds
    BY DEF Businesses
<1>4. j \in Job /\ j.email = e /\ j.customer = c
    BY <1>2, <1>3, NoJobType DEF NoJob, Job
<1>5. UNCHANGED <<customers, admins, failures, history>>
    BY DEF Register
<1>6. JobFits("create", j)'
    BY <1>4, <1>5, SameRows DEF JobFits, SubPCs, AdminPCs
<1>7. "create" \in PCs
    BY DEF PCs
<1> QED BY <1>1, <1>2, <1>4, <1>5, <1>6, <1>7, SameRows, JobsMove, TypeStill

LEMMA TypeSlugExists ==
    ASSUME TypeInv, NEW p \in Procs, SlugExists(p)
    PROVE  TypeInv'
<1>1. /\ job[p] \in Job /\ job[p].email \in Emails /\ job[p].slug \in Slugs
      /\ job[p].customer = Nil
    BY HandlerType DEF SlugExists, JobFits
<1>2. UNCHANGED <<customers, admins, history>> /\ Grows
    BY SameRows DEF SlugExists
<1>3. UNCHANGED failures \/ StatementFails
    BY DEF SlugExists, Fail
<1>4. pc' \in [Procs -> PCs] /\ job' \in [Procs -> Job] /\ JobsOK'
    <2>1. CASE GotoWith(p, "createCustomer", [job[p] EXCEPT !.tries = 0])
        <3>1. PICK j : j = [job[p] EXCEPT !.tries = 0]
            OBVIOUS
        <3>2. j \in Job /\ j.email = job[p].email /\ j.slug = job[p].slug
              /\ j.customer = job[p].customer
            <4>1. 0 \in 0 .. (SlugAttempts - 1)
                BY AccountsAssumption
            <4> QED BY <1>1, <3>1, <4>1 DEF Job
        <3>3. JobFits("createCustomer", j)' /\ "createCustomer" \in PCs
            BY <1>1, <3>2 DEF JobFits, SubPCs, AdminPCs, PCs
        <3> QED BY <1>2, <2>1, <3>1, <3>2, <3>3, JobsMove
    <2>2. CASE /\ MayDrawAgain(job[p].tries + 1)
               /\ Drawn(p, [job[p] EXCEPT !.tries = job[p].tries + 1])
        <3>1. PICK n \in 0 .. (SlugAttempts - 1) : n = job[p].tries + 1
            BY <1>1, <2>2, JobFields, AccountsAssumption DEF MayDrawAgain
        <3>2. PICK j : j = [job[p] EXCEPT !.tries = n]
            OBVIOUS
        <3>3. j \in Job /\ j.email = job[p].email /\ j.customer = job[p].customer
            BY <1>1, <3>2 DEF Job
        <3> QED BY <1>1, <1>2, <2>2, <3>1, <3>2, <3>3, DrawMove
    <2>3. CASE Finish(p)
        BY <1>2, <2>3, FinishMove
    <2> QED BY <2>1, <2>2, <2>3 DEF SlugExists, Fail
<1> QED BY <1>2, <1>3, <1>4, TypeStill

LEMMA TypeCreateCustomer ==
    ASSUME TypeInv, NEW p \in Procs, CreateCustomer(p)
    PROVE  TypeInv'
<1>1. /\ job[p] \in Job /\ job[p].email \in Emails /\ job[p].slug \in Slugs
    BY HandlerType DEF CreateCustomer, JobFits
<1>2. UNCHANGED <<admins, history>> /\ Registered' = Registered
    BY DEF CreateCustomer, Registered
<1>3. CASE \E c \in CustomerIds :
            /\ customers[c] = Nil
            /\ customers' = [customers EXCEPT ![c] = job[p].slug]
            /\ GotoWith(p, "create", [job[p] EXCEPT !.slug = Nil, !.customer = c])
            /\ UNCHANGED failures
    <2>1. PICK c \in CustomerIds :
            /\ customers[c] = Nil
            /\ customers' = [customers EXCEPT ![c] = job[p].slug]
            /\ GotoWith(p, "create", [job[p] EXCEPT !.slug = Nil, !.customer = c])
            /\ UNCHANGED failures
        BY <1>3
    <2>2. customers' \in [CustomerIds -> Slugs \cup {Nil}] /\ job[p].slug # Nil
        BY <1>1, <2>1, AccountsAssumption DEF TypeInv, TypeOK
    <2>3. c \in Businesses' /\ Businesses \subseteq Businesses'
        BY <2>1, <2>2 DEF Businesses, TypeInv, TypeOK
    <2>4. PICK j : j = [job[p] EXCEPT !.slug = Nil, !.customer = c]
        OBVIOUS
    <2>5. j \in Job /\ j.email = job[p].email /\ j.customer = c
        BY <1>1, <2>4 DEF Job
    <2>6. JobFits("create", j)' /\ "create" \in PCs
        BY <1>1, <2>3, <2>5 DEF JobFits, SubPCs, AdminPCs, PCs
    <2>7. pc' \in [Procs -> PCs] /\ job' \in [Procs -> Job] /\ JobsOK'
        BY <1>2, <2>1, <2>3, <2>4, <2>5, <2>6, JobsMove DEF Grows
    <2> QED BY <1>2, <2>1, <2>2, <2>7 DEF TypeInv, TypeOK, history
<1>4. CASE Finish(p) /\ UNCHANGED customers /\ (UNCHANGED failures \/ StatementFails)
    BY <1>2, <1>4, SameRows, FinishMove, TypeStill
<1> QED BY <1>3, <1>4 DEF CreateCustomer, Fail

LEMMA NewAdminType ==
    ASSUME TypeInv, NEW p \in Procs, pc[p] = "create"
    PROVE  /\ NewAdmin(job[p]) \in Admin
           /\ NewAdmin(job[p]).customer = job[p].customer /\ NewAdmin(job[p]).email = job[p].email
           /\ NewAdmin(job[p]).sub = job[p].sub /\ NewAdmin(job[p]).domain = job[p].sub
           /\ job[p].customer \in CustomerIds
<1>1. job[p].email \in Emails /\ job[p].customer \in CustomerIds /\ job[p].sub \in Subs \cup {Nil}
    BY HandlerType, JobFields DEF JobFits, Businesses
<1> QED BY <1>1 DEF NewAdmin, CustomerOf, Admin

(* What Create may do. *)
LEMMA CreateSteps ==
    ASSUME TypeInv, NEW p \in Procs, Create(p)
    PROVE  /\ pc[p] = "create" /\ Finish(p) /\ UNCHANGED <<customers, crossed>>
           /\ UNCHANGED failures \/ StatementFails
           /\ \/ \E a \in AdminIds \ Registered :
                   /\ admins' = [admins EXCEPT ![a] = NewAdmin(job[p])]
                   /\ job[p].sub # Nil => WithSub(job[p].sub) = {}
                   /\ UNCHANGED givenUp
              \/ givenUp' = givenUp \cup {job[p].customer} /\ UNCHANGED admins
BY NewAdminType DEF Create, Fail

LEMMA TypeCreate ==
    ASSUME TypeInv, NEW p \in Procs, Create(p)
    PROVE  TypeInv'
<1>1. /\ pc[p] = "create" /\ Finish(p) /\ UNCHANGED <<customers, crossed>>
      /\ UNCHANGED failures \/ StatementFails
    BY CreateSteps
<1>2. failures' \in 0 .. MaxFailures
    BY <1>1, FailureType
<1>3. NewAdmin(job[p]) \in Admin /\ job[p].customer \in CustomerIds
    BY <1>1, NewAdminType
<1>4. /\ admins' \in [AdminIds -> Admin \cup {NoAdmin}]
      /\ Registered \subseteq Registered' /\ givenUp' \subseteq CustomerIds
    <2>1. CASE \E a \in AdminIds \ Registered :
                 admins' = [admins EXCEPT ![a] = NewAdmin(job[p])] /\ UNCHANGED givenUp
        BY <1>3, <2>1, NoAdminType DEF TypeInv, TypeOK, Registered
    <2>2. CASE givenUp' = givenUp \cup {job[p].customer} /\ UNCHANGED admins
        BY <1>3, <2>2 DEF TypeInv, TypeOK, Registered
    <2> QED BY <2>1, <2>2, CreateSteps
<1>5. Grows
    BY <1>1, <1>4 DEF Grows, Businesses
<1>6. pc' \in [Procs -> PCs] /\ job' \in [Procs -> Job] /\ JobsOK'
    BY <1>1, <1>5, FinishMove
<1> QED BY <1>1, <1>2, <1>4, <1>6 DEF TypeInv, TypeOK

(* The steps of a login and of a request to link. *)
LEMMA TypeGoogleLogin ==
    ASSUME TypeInv, NEW p \in Procs, GoogleLogin(p)
    PROVE  TypeInv'
<1>1. PICK s \in Subs : GotoWith(p, "getByGoogleSub", [NoJob EXCEPT !.sub = s])
    BY DEF GoogleLogin, Begin
<1>2. PICK j : j = [NoJob EXCEPT !.sub = s]
    OBVIOUS
<1>3. j \in Job /\ j.sub = s /\ j.customer = Nil
    BY <1>2, NoJobType DEF NoJob, Job
<1>4. UNCHANGED <<customers, admins, failures, history>>
    BY DEF GoogleLogin
<1>5. JobFits("getByGoogleSub", j)' /\ "getByGoogleSub" \in PCs
    BY <1>3 DEF JobFits, SubPCs, AdminPCs, PCs
<1> QED BY <1>1, <1>2, <1>3, <1>4, <1>5, SameRows, JobsMove, TypeStill

(* A login that has found an admin. *)
LEMMA FoundMove ==
    ASSUME TypeInv, UNCHANGED <<customers, admins>>, NEW p \in Procs, job[p].sub \in Subs,
           job[p].customer = Nil, NEW a \in Registered, NEW s \in AdminPCs,
           GotoWith(p, s, [job[p] EXCEPT !.admin = a])
    PROVE  pc' \in [Procs -> PCs] /\ job' \in [Procs -> Job] /\ JobsOK'
<1>1. PICK j : j = [job[p] EXCEPT !.admin = a]
    OBVIOUS
<1>2. a \in AdminIds /\ job[p] \in Job
    BY HandlerType DEF Registered
<1>3. j \in Job /\ j.sub = job[p].sub /\ j.customer = job[p].customer /\ j.admin = a
    BY <1>1, <1>2 DEF Job
<1>4. a \in Registered' /\ Grows
    BY SameRows
<1>5. JobFits(s, j)' /\ s \in PCs
    BY <1>3, <1>4 DEF JobFits, SubPCs, AdminPCs, PCs
<1> QED BY <1>1, <1>3, <1>4, <1>5, JobsMove

(* A request that goes on with what it has. *)
LEMMA GotoMove ==
    ASSUME TypeInv, Grows, NEW p \in Procs, NEW s \in PCs, JobFits(s, job[p]), Goto(p, s)
    PROVE  pc' \in [Procs -> PCs] /\ job' \in [Procs -> Job] /\ JobsOK'
<1>1. PICK j \in Job : j = job[p]
    BY HandlerType
<1>2. JobFits(s, j)'
    BY <1>1, FitsMove
<1> QED BY <1>1, <1>2, JobsMove DEF Goto

LEMMA TypeGetByGoogleSub ==
    ASSUME TypeInv, NEW p \in Procs, GetByGoogleSub(p)
    PROVE  TypeInv'
<1>1. job[p].sub \in Subs /\ job[p].customer = Nil
    BY HandlerType DEF GetByGoogleSub, JobFits, SubPCs
<1>2. UNCHANGED <<customers, admins, history>> /\ Grows /\ (UNCHANGED failures \/ StatementFails)
    BY SameRows DEF GetByGoogleSub, Fail
<1>3. pc' \in [Procs -> PCs] /\ job' \in [Procs -> Job] /\ JobsOK'
    <2>1. ASSUME NEW a \in WithSub(job[p].sub),
                 GotoWith(p, "refreshProfile", [job[p] EXCEPT !.admin = a])
          PROVE  pc' \in [Procs -> PCs] /\ job' \in [Procs -> Job] /\ JobsOK'
        BY <1>1, <1>2, <2>1, FoundMove DEF WithSub, AdminPCs
    <2>2. CASE Goto(p, "getByEmail")
        <3>1. "getByEmail" \in PCs /\ JobFits("getByEmail", job[p])
            BY <1>1 DEF PCs, JobFits, AdminPCs
        <3> QED BY <1>2, <2>2, <3>1, GotoMove
    <2>3. CASE Finish(p)
        BY <1>2, <2>3, FinishMove
    <2> QED BY <2>1, <2>2, <2>3 DEF GetByGoogleSub, Fail
<1> QED BY <1>2, <1>3, TypeStill

LEMMA TypeGetByEmail ==
    ASSUME TypeInv, NEW p \in Procs, GetByEmail(p)
    PROVE  TypeInv'
<1>1. job[p].sub \in Subs /\ job[p].customer = Nil
    BY HandlerType DEF GetByEmail, JobFits, SubPCs
<1>2. UNCHANGED <<customers, admins, history>> /\ Grows /\ (UNCHANGED failures \/ StatementFails)
    BY SameRows DEF GetByEmail, Fail
<1>3. pc' \in [Procs -> PCs] /\ job' \in [Procs -> Job] /\ JobsOK'
    <2>1. ASSUME NEW a \in WithEmail(EmailOf[job[p].sub]),
                 GotoWith(p, "loginLink", [job[p] EXCEPT !.admin = a])
          PROVE  pc' \in [Procs -> PCs] /\ job' \in [Procs -> Job] /\ JobsOK'
        BY <1>1, <1>2, <2>1, FoundMove DEF WithEmail, AdminPCs
    <2>3. CASE Finish(p)
        BY <1>2, <2>3, FinishMove
    <2> QED BY <2>1, <2>3 DEF GetByEmail, Fail
<1> QED BY <1>2, <1>3, TypeStill

LEMMA TypeGetByID ==
    ASSUME TypeInv, NEW p \in Procs, GetByID(p)
    PROVE  TypeInv'
<1>1. /\ UNCHANGED <<customers, admins, history>> /\ Grows
      /\ UNCHANGED failures \/ StatementFails
      /\ Finish(p)
    BY SameRows DEF GetByID, Fail
<1> QED BY <1>1, FinishMove, TypeStill

LEMMA TypeLinkGoogle ==
    ASSUME TypeInv, NEW p \in Procs, LinkGoogle(p)
    PROVE  TypeInv'
<1>1. PICK a \in Registered, s \in Subs :
          GotoWith(p, "checkLink", [NoJob EXCEPT !.admin = a, !.sub = s])
    BY DEF LinkGoogle, Begin
<1>2. PICK j : j = [NoJob EXCEPT !.admin = a, !.sub = s]
    OBVIOUS
<1>3. a \in AdminIds
    BY DEF Registered
<1>4. j \in Job /\ j.sub = s /\ j.admin = a /\ j.customer = Nil
    BY <1>2, <1>3, NoJobType DEF NoJob, Job
<1>5. UNCHANGED <<customers, admins, failures, history>>
    BY DEF LinkGoogle
<1>6. JobFits("checkLink", j)' /\ "checkLink" \in PCs
    BY <1>4, <1>5, SameRows DEF JobFits, SubPCs, AdminPCs, PCs
<1> QED BY <1>1, <1>2, <1>4, <1>5, <1>6, SameRows, JobsMove, TypeStill

LEMMA TypeCheckLink ==
    ASSUME TypeInv, NEW p \in Procs, CheckLink(p)
    PROVE  TypeInv'
<1>1. JobFits("checkLink", job[p])
    BY HandlerType DEF CheckLink
<1>2. UNCHANGED <<customers, admins, history>> /\ Grows /\ (UNCHANGED failures \/ StatementFails)
    BY SameRows DEF CheckLink
<1>3. "link" \in PCs /\ JobFits("link", job[p])
    BY <1>1 DEF PCs, JobFits, SubPCs, AdminPCs
<1>4. pc' \in [Procs -> PCs] /\ job' \in [Procs -> Job] /\ JobsOK'
    BY <1>2, <1>3, GotoMove, FinishMove DEF CheckLink
<1> QED BY <1>2, <1>4, TypeStill

(* One row of admins is written. *)
LEMMA WrittenType ==
    ASSUME TypeInv, NEW a \in Registered, NEW row \in Admin, admins' = [admins EXCEPT ![a] = row]
    PROVE  /\ admins' \in [AdminIds -> Admin \cup {NoAdmin}] /\ Registered' = Registered
           /\ admins'[a] = row /\ \A b \in AdminIds \ {a} : admins'[b] = admins[b]
<1>1. a \in AdminIds /\ admins[a] # NoAdmin
    BY DEF Registered
<1>2. /\ admins' \in [AdminIds -> Admin \cup {NoAdmin}]
      /\ admins'[a] = row /\ \A b \in AdminIds \ {a} : admins'[b] = admins[b]
    BY <1>1 DEF TypeInv, TypeOK
<1> QED BY <1>1, <1>2, NoAdminType DEF Registered

LEMMA RowChanges ==
    ASSUME TypeInv, NEW a \in Registered
    PROVE  /\ \A s \in Subs : [admins[a] EXCEPT !.sub = s, !.domain = s] \in Admin
           /\ \A s \in Subs : [admins[a] EXCEPT !.domain = s] \in Admin
           /\ Unlinked(admins[a]) \in Admin
           /\ admins[a] \in Admin
<1>1. PICK row \in Admin : row = admins[a]
    BY RowType DEF Registered
<1> QED BY <1>1 DEF Unlinked, Admin

(* What a step may do to the rows of admins. *)
Links(a, s) == admins' = [admins EXCEPT ![a] = [admins[a] EXCEPT !.sub = s, !.domain = s]]

LEMMA LinkSteps ==
    ASSUME TypeInv, NEW p \in Procs, NEW step \in {"loginLink", "link"},
           NEW next \in {"idle", "getByID"}, LinkGoogleRow(p, step, next)
    PROVE  /\ pc[p] = step /\ job[p].admin \in Registered /\ job[p].sub \in Subs
           /\ UNCHANGED <<customers, givenUp>> /\ (UNCHANGED failures \/ StatementFails)
           /\ \/ /\ FreeFor(job[p].sub, job[p].admin) /\ Links(job[p].admin, job[p].sub)
                 /\ GotoWith(p, next, IF next = "idle" THEN NoJob ELSE job[p])
                 /\ Cross(p, job[p].admin)
              \/ Finish(p) /\ UNCHANGED <<admins, crossed>>
<1>1. pc[p] = step /\ job[p].admin \in Registered /\ job[p].sub \in Subs
    BY HandlerType DEF LinkGoogleRow, JobFits, SubPCs, AdminPCs
<1>2. PICK a, s : a = job[p].admin /\ s = job[p].sub
    OBVIOUS
<1>3. [admins EXCEPT ![a].sub = s, ![a].domain = s]
          = [admins EXCEPT ![a] = [admins[a] EXCEPT !.sub = s, !.domain = s]]
    BY <1>1, <1>2 DEF TypeInv, TypeOK, Registered
<1> QED BY <1>1, <1>2, <1>3 DEF LinkGoogleRow, Links, Fail

LEMMA CrossType ==
    ASSUME TypeInv, NEW p \in Procs, NEW a \in Registered, Cross(p, a)
    PROVE  crossed' \subseteq AdminIds /\ crossed \subseteq crossed'
BY DEF Cross, TypeInv, TypeOK, Registered

LEMMA TypeLinkRow ==
    ASSUME TypeInv, NEW p \in Procs, NEW step \in {"loginLink", "link"},
           NEW next \in {"idle", "getByID"}, LinkGoogleRow(p, step, next)
    PROVE  TypeInv'
<1>1. /\ job[p].admin \in Registered /\ job[p].sub \in Subs /\ job[p].customer = Nil
      /\ UNCHANGED <<customers, givenUp>> /\ (UNCHANGED failures \/ StatementFails)
    BY LinkSteps, HandlerType DEF JobFits
<1>2. CASE /\ Links(job[p].admin, job[p].sub)
           /\ GotoWith(p, next, IF next = "idle" THEN NoJob ELSE job[p])
           /\ Cross(p, job[p].admin)
    <2>1. PICK a \in Registered, s \in Subs : a = job[p].admin /\ s = job[p].sub
        BY <1>1
    <2>2. PICK row \in Admin : row = [admins[a] EXCEPT !.sub = s, !.domain = s]
        BY RowChanges
    <2>3. admins' = [admins EXCEPT ![a] = row]
        BY <1>2, <2>1, <2>2 DEF Links
    <2>4. admins' \in [AdminIds -> Admin \cup {NoAdmin}] /\ Registered' = Registered
        BY <2>3, WrittenType
    <2>5. Grows
        BY <1>1, <2>4 DEF Grows, Businesses
    <2>6. pc' \in [Procs -> PCs] /\ job' \in [Procs -> Job] /\ JobsOK'
        <3>1. CASE next = "idle"
            BY <1>2, <2>5, <3>1, FinishMove DEF Finish
        <3>2. CASE next = "getByID"
            <4>1. Goto(p, "getByID")
                BY <1>2, <3>2 DEF Goto
            <4>2. "getByID" \in PCs /\ JobFits("getByID", job[p])
                BY <1>1 DEF PCs, JobFits
            <4> QED BY <2>5, <4>1, <4>2, GotoMove
        <3> QED BY <3>1, <3>2
    <2>7. crossed' \subseteq AdminIds
        BY <1>2, <2>1, CrossType
    <2>8. TypeOK'
        BY <1>1, <2>4, <2>6, <2>7, FailureType DEF TypeInv, TypeOK
    <2> QED BY <2>6, <2>8 DEF TypeInv
<1>3. CASE Finish(p) /\ UNCHANGED <<admins, crossed>>
    BY <1>1, <1>3, SameRows, FinishMove, TypeStill DEF history
<1> QED BY <1>2, <1>3, LinkSteps

LEMMA TypeRefreshProfile ==
    ASSUME TypeInv, NEW p \in Procs, RefreshProfile(p)
    PROVE  TypeInv'
<1>1. JobFits("refreshProfile", job[p]) /\ job[p].admin \in Registered /\ job[p].sub \in Subs
    BY HandlerType DEF RefreshProfile, JobFits, SubPCs, AdminPCs
<1>2. UNCHANGED <<customers, history>> /\ (UNCHANGED failures \/ StatementFails)
    BY DEF RefreshProfile, Fail
<1>3. CASE /\ admins' = [admins EXCEPT ![job[p].admin].domain = job[p].sub]
           /\ Goto(p, "getByID")
    <2>1. PICK a \in Registered, s \in Subs : a = job[p].admin /\ s = job[p].sub
        BY <1>1
    <2>2. PICK row \in Admin : row = [admins[a] EXCEPT !.domain = s]
        BY RowChanges
    <2>3. admins' = [admins EXCEPT ![a] = row]
        BY <1>3, <2>1, <2>2
    <2>4. admins' \in [AdminIds -> Admin \cup {NoAdmin}] /\ Registered' = Registered
        BY <2>3, WrittenType
    <2>5. Grows
        BY <1>2, <2>4 DEF Grows, Businesses
    <2>6. "getByID" \in PCs /\ JobFits("getByID", job[p])
        BY <1>1 DEF PCs, JobFits, SubPCs, AdminPCs
    <2>7. pc' \in [Procs -> PCs] /\ job' \in [Procs -> Job] /\ JobsOK'
        BY <1>3, <2>5, <2>6, GotoMove
    <2>8. TypeOK'
        BY <1>2, <2>4, <2>7, FailureType DEF TypeInv, TypeOK, history
    <2> QED BY <2>7, <2>8 DEF TypeInv
<1>4. CASE Finish(p) /\ UNCHANGED admins
    BY <1>2, <1>4, SameRows, FinishMove, TypeStill
<1> QED BY <1>3, <1>4 DEF RefreshProfile, Fail

LEMMA TypeUnlinkGoogle ==
    ASSUME TypeInv, NEW p \in Procs, UnlinkGoogle(p)
    PROVE  TypeInv'
<1>1. PICK a \in Registered : admins' = [admins EXCEPT ![a] = Unlinked(admins[a])] /\ Cross(p, a)
    BY DEF UnlinkGoogle
<1>2. UNCHANGED <<customers, pc, job, failures, givenUp>>
    BY DEF UnlinkGoogle
<1>3. PICK row \in Admin : row = Unlinked(admins[a])
    BY RowChanges
<1>4. admins' \in [AdminIds -> Admin \cup {NoAdmin}] /\ Registered' = Registered
    BY <1>1, <1>3, WrittenType
<1>5. Grows
    BY <1>2, <1>4 DEF Grows, Businesses
<1>6. pc' \in [Procs -> PCs] /\ job' \in [Procs -> Job] /\ JobsOK'
    BY <1>2, <1>5, StayMove
<1>7. TypeOK'
    BY <1>1, <1>2, <1>4, <1>6, CrossType DEF TypeInv, TypeOK
<1> QED BY <1>6, <1>7 DEF TypeInv

LEMMA TypeNext == TypeInv /\ [Next]_vars => TypeInv'
<1> SUFFICES ASSUME TypeInv, [Next]_vars PROVE TypeInv'
    OBVIOUS
<1>1. CASE UNCHANGED vars
    BY <1>1, SameRows, StayMove, TypeStill DEF vars, history
<1>2. "loginLink" \in {"loginLink", "link"} /\ "link" \in {"loginLink", "link"}
      /\ "idle" \in {"idle", "getByID"} /\ "getByID" \in {"idle", "getByID"}
    OBVIOUS
<1>3. ASSUME NEW p \in Procs, LoginLink(p) \/ Link(p) PROVE TypeInv'
    BY <1>2, <1>3, TypeLinkRow DEF LoginLink, Link
<1> QED BY <1>1, <1>3, TypeOnboard, TypeGoogleOnboard, TypeRegister, TypeSlugExists,
           TypeCreateCustomer, TypeCreate, TypeGoogleLogin, TypeGetByGoogleSub,
           TypeGetByEmail, TypeRefreshProfile, TypeGetByID, TypeLinkGoogle, TypeCheckLink,
           TypeUnlinkGoogle DEF Next, Quiescent

LEMMA TypeInit == Init => TypeInv
<1> SUFFICES ASSUME Init PROVE TypeInv
    OBVIOUS
<1>1. "idle" \in PCs
    BY DEF PCs
<1>2. pc \in [Procs -> PCs] /\ job \in [Procs -> Job] /\ JobsOK
    BY <1>1, NoJobType DEF Init, JobsOK
<1>3. failures \in 0 .. MaxFailures
    BY AccountsAssumption DEF Init
<1>4. TypeOK
    BY <1>2, <1>3 DEF Init, TypeOK
<1> QED BY <1>2, <1>4 DEF TypeInv

LEMMA TypeInvariance == Spec => []TypeInv
BY TypeInit, TypeNext, PTL DEF Spec

(* Every variable keeps to the rows and values the code can write: the     *)
(* UPDATEs of a login and of a link always find the row of the admin.      *)
THEOREM TypeCorrect == Spec => []TypeOK
<1>1. TypeInv => TypeOK
    BY DEF TypeInv
<1> QED BY <1>1, TypeInvariance, PTL

-----------------------------------------------------------------------------
(* Google accounts *)

LoginPCs == {"refreshProfile", "getByID"}

(* google_sub is UNIQUE. *)
SubsApart == \A a, b \in Registered :
    admins[a].sub = admins[b].sub /\ admins[a].sub # Nil => a = b

(* A login that has found or linked its admin is right about it. *)
LoginsHold == \A p \in Procs :
    pc[p] \in {"refreshProfile", "getByID"} /\ job[p].admin \notin crossed =>
        admins[job[p].admin].sub = job[p].sub

LinkInv == SubsApart /\ LoginsHold /\ DomainIsOfLinkedAccount

(* The steps that leave the rows of admins alone and that no login takes   *)
(* once it has found its admin.                                            *)
QuietStep(p) ==
    \/ Onboard(p) \/ GoogleOnboard(p) \/ Register(p) \/ SlugExists(p) \/ CreateCustomer(p)
    \/ GoogleLogin(p) \/ GetByEmail(p) \/ GetByID(p) \/ LinkGoogle(p) \/ CheckLink(p)

LEMMA QuietSteps ==
    ASSUME TypeInv, NEW p \in Procs, QuietStep(p)
    PROVE  /\ UNCHANGED <<admins, crossed, givenUp>> /\ pc[p] # "create"
           /\ \E s, j : GotoWith(p, s, j) /\ s \notin LoginPCs
<1>1. UNCHANGED <<admins, crossed, givenUp>> /\ pc[p] # "create"
    BY DEF QuietStep, Onboard, GoogleOnboard, Register, SlugExists, CreateCustomer,
           GoogleLogin, GetByEmail, GetByID, LinkGoogle, CheckLink, history, Begin
<1> SUFFICES \E t, k : GotoWith(p, t, k) /\ t \notin LoginPCs
    BY <1>1
<1>2. ASSUME NEW s, NEW j, GotoWith(p, s, j), s \notin LoginPCs
      PROVE  \E t, k : GotoWith(p, t, k) /\ t \notin LoginPCs
    BY <1>2
<1>3. ASSUME NEW j, Drawn(p, j) PROVE \E t, k : GotoWith(p, t, k) /\ t \notin LoginPCs
    BY <1>2, <1>3 DEF Drawn, LoginPCs
<1>4. ASSUME Finish(p) PROVE \E t, k : GotoWith(p, t, k) /\ t \notin LoginPCs
    BY <1>2, <1>4 DEF Finish, LoginPCs
<1>5. CASE Onboard(p) \/ GoogleOnboard(p)
    BY <1>3, <1>5 DEF Onboard, GoogleOnboard
<1>6. CASE Register(p) \/ GoogleLogin(p) \/ LinkGoogle(p)
    <2>1. CASE Register(p)
        <3>1. PICK e, c : Begin(p, "create", [NoJob EXCEPT !.email = e, !.customer = c])
            BY <2>1 DEF Register
        <3>2. PICK j : j = [NoJob EXCEPT !.email = e, !.customer = c]
            OBVIOUS
        <3>3. GotoWith(p, "create", j)
            BY <3>1, <3>2 DEF Begin
        <3> QED BY <3>3, <1>2 DEF LoginPCs
    <2>2. CASE GoogleLogin(p)
        <3>1. PICK s : Begin(p, "getByGoogleSub", [NoJob EXCEPT !.sub = s])
            BY <2>2 DEF GoogleLogin
        <3>2. PICK j : j = [NoJob EXCEPT !.sub = s]
            OBVIOUS
        <3>3. GotoWith(p, "getByGoogleSub", j)
            BY <3>1, <3>2 DEF Begin
        <3> QED BY <3>3, <1>2 DEF LoginPCs
    <2>3. CASE LinkGoogle(p)
        <3>1. PICK a, s : Begin(p, "checkLink", [NoJob EXCEPT !.admin = a, !.sub = s])
            BY <2>3 DEF LinkGoogle
        <3>2. PICK j : j = [NoJob EXCEPT !.admin = a, !.sub = s]
            OBVIOUS
        <3>3. GotoWith(p, "checkLink", j)
            BY <3>1, <3>2 DEF Begin
        <3> QED BY <3>3, <1>2 DEF LoginPCs
    <2> QED BY <1>6, <2>1, <2>2, <2>3
<1>7. CASE SlugExists(p)
    BY <1>2, <1>3, <1>4, <1>7 DEF SlugExists, Fail, LoginPCs
<1>8. CASE CreateCustomer(p)
    <2>1. CASE Finish(p)
        BY <2>1, <1>4
    <2>2. CASE ~Finish(p)
        <3>1. PICK c : GotoWith(p, "create", [job[p] EXCEPT !.slug = Nil, !.customer = c])
            BY <1>8, <2>2 DEF CreateCustomer, Fail
        <3>2. PICK j : j = [job[p] EXCEPT !.slug = Nil, !.customer = c]
            OBVIOUS
        <3>3. GotoWith(p, "create", j)
            BY <3>1, <3>2
        <3> QED BY <3>3, <1>2 DEF LoginPCs
    <2> QED BY <2>1, <2>2
<1>9. CASE GetByEmail(p)
    <2>1. CASE Finish(p)
        BY <2>1, <1>4
    <2>2. CASE ~Finish(p)
        <3>1. PICK a : GotoWith(p, "loginLink", [job[p] EXCEPT !.admin = a])
            BY <1>9, <2>2 DEF GetByEmail, Fail
        <3>2. PICK j : j = [job[p] EXCEPT !.admin = a]
            OBVIOUS
        <3>3. GotoWith(p, "loginLink", j)
            BY <3>1, <3>2
        <3> QED BY <3>3, <1>2 DEF LoginPCs
    <2> QED BY <2>1, <2>2
<1>10. CASE GetByID(p)
    BY <1>4, <1>10 DEF GetByID, Fail
<1>11. CASE CheckLink(p)
    BY <1>2, <1>4, <1>11 DEF CheckLink, Goto, LoginPCs
<1> QED BY <1>5, <1>6, <1>7, <1>8, <1>9, <1>10, <1>11 DEF QuietStep

(* An admin whose account changes is marked when a login of the admin by   *)
(* somebody else is under way.                                             *)
LEMMA LoginsMove ==
    ASSUME TypeInv, LoginsHold, NEW p \in Procs, NEW s, NEW j, GotoWith(p, s, j),
           crossed \subseteq crossed',
           \A a \in Registered : \/ admins'[a].sub = admins[a].sub
                                 \/ LoginsOf(p, a) # {} => a \in crossed',
           s \in LoginPCs /\ j.admin \notin crossed' => admins'[j.admin].sub = j.sub
    PROVE  LoginsHold'
<1> SUFFICES ASSUME NEW q \in Procs, pc'[q] \in LoginPCs, job'[q].admin \notin crossed'
             PROVE  admins'[job'[q].admin].sub = job'[q].sub
    BY DEF LoginsHold, LoginPCs
<1>1. CASE q = p
    <2>1. pc'[q] = s /\ job'[q] = j
        BY <1>1 DEF TypeInv, TypeOK, GotoWith
    <2> QED BY <2>1
<1>2. CASE q # p
    <2>1. pc'[q] = pc[q] /\ job'[q] = job[q]
        BY <1>2 DEF TypeInv, TypeOK, GotoWith
    <2>2. PICK a : a = job[q].admin
        OBVIOUS
    <2>3. q \in LoginsOf(p, a)
        BY <1>2, <2>1, <2>2 DEF LoginsOf, LoginPCs
    <2>4. a \in Registered
        BY <2>1, <2>2, HandlerType DEF JobFits, AdminPCs, LoginPCs
    <2>5. admins[a].sub = job[q].sub
        BY <2>1, <2>2 DEF LoginsHold, LoginPCs
    <2> QED BY <2>1, <2>2, <2>3, <2>4, <2>5
<1> QED BY <1>1, <1>2

LEMMA SameLinks ==
    ASSUME LinkInv, UNCHANGED <<admins, crossed>>
    PROVE  SubsApart' /\ DomainIsOfLinkedAccount'
BY DEF LinkInv, SubsApart, DomainIsOfLinkedAccount, Registered

LEMMA LinkQuiet ==
    ASSUME TypeInv, LinkInv, NEW p \in Procs, UNCHANGED <<admins, crossed>>,
           NEW s, NEW j, GotoWith(p, s, j),
           s \in LoginPCs => admins[j.admin].sub = j.sub
    PROVE  LinkInv'
<1>1. LoginsHold'
    BY LoginsMove DEF LinkInv
<1> QED BY <1>1, SameLinks DEF LinkInv

LEMMA LinkCreate ==
    ASSUME TypeInv, LinkInv, NEW p \in Procs, Create(p)
    PROVE  LinkInv'
<1>1. pc[p] = "create" /\ Finish(p) /\ UNCHANGED crossed
    BY CreateSteps
<1>2. CASE UNCHANGED admins
    BY <1>1, <1>2, LinkQuiet DEF Finish, LoginPCs
<1>3. ASSUME NEW a \in AdminIds \ Registered,
             admins' = [admins EXCEPT ![a] = NewAdmin(job[p])],
             job[p].sub # Nil => WithSub(job[p].sub) = {}
      PROVE  LinkInv'
    <2>1. PICK row \in Admin : row = NewAdmin(job[p]) /\ row.sub = job[p].sub
                               /\ row.domain = job[p].sub
        BY <1>1, NewAdminType
    <2>2. /\ admins'[a] = row /\ \A b \in AdminIds \ {a} : admins'[b] = admins[b]
          /\ Registered' = Registered \cup {a}
        BY <1>3, <2>1, NoAdminType DEF TypeInv, TypeOK, Registered
    <2>3. \A b \in Registered : admins'[b] = admins[b] /\ b # a
        BY <1>3, <2>2 DEF Registered
    <2>4. row.sub # Nil => \A b \in Registered : admins[b].sub # row.sub
        BY <1>3, <2>1 DEF WithSub
    <2>5. SubsApart'
        BY <2>2, <2>3, <2>4 DEF LinkInv, SubsApart
    <2>6. DomainIsOfLinkedAccount'
        BY <1>1, <2>1, <2>2, <2>3 DEF LinkInv, DomainIsOfLinkedAccount
    <2>7. LoginsHold'
        BY <1>1, <2>3, LoginsMove DEF LinkInv, Finish, LoginPCs
    <2> QED BY <2>5, <2>6, <2>7 DEF LinkInv
<1> QED BY <1>2, <1>3, CreateSteps

LEMMA LinkGetByGoogleSub ==
    ASSUME TypeInv, LinkInv, NEW p \in Procs, GetByGoogleSub(p)
    PROVE  LinkInv'
<1>1. UNCHANGED <<admins, crossed>>
    BY DEF GetByGoogleSub, history
<1>2. ASSUME NEW a \in WithSub(job[p].sub),
             GotoWith(p, "refreshProfile", [job[p] EXCEPT !.admin = a])
      PROVE  LinkInv'
    <2>1. PICK j : j = [job[p] EXCEPT !.admin = a]
        OBVIOUS
    <2>2. j.admin = a /\ j.sub = job[p].sub
        BY <2>1, HandlerType DEF Job
    <2>3. admins[a].sub = job[p].sub
        BY DEF WithSub
    <2> QED BY <1>1, <1>2, <2>1, <2>2, <2>3, LinkQuiet
<1>3. CASE Goto(p, "getByEmail") \/ Finish(p)
    BY <1>1, <1>3, LinkQuiet DEF Goto, Finish, LoginPCs
<1> QED BY <1>2, <1>3 DEF GetByGoogleSub, Fail

LEMMA LinkRow ==
    ASSUME TypeInv, LinkInv, NEW p \in Procs, NEW step \in {"loginLink", "link"},
           NEW next \in {"idle", "getByID"}, LinkGoogleRow(p, step, next)
    PROVE  LinkInv'
<1>1. CASE Finish(p) /\ UNCHANGED <<admins, crossed>>
    BY <1>1, LinkQuiet DEF Finish, LoginPCs
<1>2. CASE /\ FreeFor(job[p].sub, job[p].admin) /\ Links(job[p].admin, job[p].sub)
           /\ GotoWith(p, next, IF next = "idle" THEN NoJob ELSE job[p])
           /\ Cross(p, job[p].admin)
    <2>1. PICK a \in Registered, s \in Subs : a = job[p].admin /\ s = job[p].sub
        BY LinkSteps
    <2>2. PICK row \in Admin : row = [admins[a] EXCEPT !.sub = s, !.domain = s]
        BY RowChanges
    <2>3. row.sub = s /\ row.domain = s
        BY <2>2, RowChanges DEF Admin
    <2>4. admins' = [admins EXCEPT ![a] = row]
        BY <1>2, <2>1, <2>2 DEF Links
    <2>5. /\ Registered' = Registered /\ admins'[a] = row
          /\ \A b \in Registered \ {a} : admins'[b] = admins[b]
        BY <2>4, WrittenType DEF Registered
    <2>6. crossed \subseteq crossed' /\ (LoginsOf(p, a) # {} => a \in crossed')
        BY <1>2, <2>1 DEF Cross
    <2>7. \A b \in Registered \ {a} : admins[b].sub # s
        BY <1>2, <2>1 DEF FreeFor, WithSub
    <2>8. SubsApart'
        BY <2>3, <2>5, <2>7 DEF LinkInv, SubsApart
    <2>9. DomainIsOfLinkedAccount'
        BY <2>3, <2>5, <2>6 DEF LinkInv, DomainIsOfLinkedAccount
    <2>10. LoginsHold'
        <3>1. PICK j : j = IF next = "idle" THEN NoJob ELSE job[p]
            OBVIOUS
        <3>2. GotoWith(p, next, j)
            BY <1>2, <3>1
        <3>3. next \in LoginPCs => j.admin = a /\ j.sub = s
            BY <2>1, <3>1 DEF LoginPCs
        <3>4. next \in LoginPCs => admins'[j.admin].sub = j.sub
            BY <2>3, <2>5, <3>3
        <3>5. \A b \in Registered : \/ admins'[b].sub = admins[b].sub
                                    \/ LoginsOf(p, b) # {} => b \in crossed'
            BY <2>5, <2>6
        <3> QED BY <2>6, <3>2, <3>4, <3>5, LoginsMove DEF LinkInv
    <2> QED BY <2>8, <2>9, <2>10 DEF LinkInv
<1> QED BY <1>1, <1>2, LinkSteps

LEMMA LinkRefreshProfile ==
    ASSUME TypeInv, LinkInv, NEW p \in Procs, RefreshProfile(p)
    PROVE  LinkInv'
<1>1. pc[p] = "refreshProfile" /\ job[p].admin \in Registered /\ job[p].sub \in Subs
      /\ UNCHANGED crossed
    BY HandlerType DEF RefreshProfile, JobFits, SubPCs, AdminPCs, history
<1>2. CASE Finish(p) /\ UNCHANGED admins
    BY <1>1, <1>2, LinkQuiet DEF Finish, LoginPCs
<1>3. CASE /\ admins' = [admins EXCEPT ![job[p].admin].domain = job[p].sub]
           /\ Goto(p, "getByID")
    <2>1. PICK a, s, j : /\ a \in Registered /\ a = job[p].admin
                         /\ s \in Subs /\ s = job[p].sub
                         /\ j = job[p]
        BY <1>1
    <2>2. PICK row \in Admin : row = [admins[a] EXCEPT !.domain = s]
        BY <2>1, RowChanges
    <2>3. row.sub = admins[a].sub /\ row.domain = s
        BY <2>1, <2>2, RowChanges DEF Admin
    <2>4. admins' = [admins EXCEPT ![a] = row]
        BY <1>3, <2>1, <2>2
    <2>5. /\ Registered' = Registered /\ admins'[a] = row
          /\ \A b \in Registered \ {a} : admins'[b] = admins[b]
        BY <2>1, <2>4, WrittenType DEF Registered
    <2>6. a \notin crossed => admins[a].sub = s
        BY <1>1, <2>1 DEF LinkInv, LoginsHold
    <2>7. \A b \in Registered : admins'[b].sub = admins[b].sub
        BY <2>3, <2>5
    <2>8. SubsApart'
        BY <2>5, <2>7 DEF LinkInv, SubsApart
    <2>9. DomainIsOfLinkedAccount'
        BY <1>1, <2>3, <2>5, <2>6 DEF LinkInv, DomainIsOfLinkedAccount
    <2>10. LoginsHold'
        BY <1>1, <1>3, <2>1, <2>6, <2>7, LoginsMove DEF LinkInv, Goto
    <2> QED BY <2>8, <2>9, <2>10 DEF LinkInv
<1> QED BY <1>2, <1>3 DEF RefreshProfile, Fail

LEMMA LinkUnlinkGoogle ==
    ASSUME TypeInv, LinkInv, NEW p \in Procs, UnlinkGoogle(p)
    PROVE  LinkInv'
<1>1. PICK a \in Registered : admins' = [admins EXCEPT ![a] = Unlinked(admins[a])] /\ Cross(p, a)
    BY DEF UnlinkGoogle
<1>2. UNCHANGED <<pc, job>> /\ pc[p] = "idle"
    BY DEF UnlinkGoogle
<1>3. PICK row \in Admin : row = Unlinked(admins[a])
    BY RowChanges
<1>4. row.sub = Nil /\ row.domain = Nil
    BY <1>3, RowChanges DEF Unlinked, Admin
<1>5. /\ Registered' = Registered /\ admins'[a] = row
      /\ \A b \in Registered \ {a} : admins'[b] = admins[b]
    BY <1>1, <1>3, WrittenType DEF Registered
<1>6. crossed \subseteq crossed' /\ (LoginsOf(p, a) # {} => a \in crossed')
    BY <1>1 DEF Cross
<1>7. SubsApart'
    BY <1>4, <1>5 DEF LinkInv, SubsApart
<1>8. DomainIsOfLinkedAccount'
    BY <1>4, <1>5, <1>6 DEF LinkInv, DomainIsOfLinkedAccount
<1>9. LoginsHold'
    <2>1. PICK j : j = job[p]
        OBVIOUS
    <2>2. GotoWith(p, "idle", j)
        BY <1>2, <2>1 DEF GotoWith, TypeInv, TypeOK
    <2>3. \A b \in Registered : \/ admins'[b].sub = admins[b].sub
                                \/ LoginsOf(p, b) # {} => b \in crossed'
        BY <1>5, <1>6
    <2> QED BY <1>6, <2>2, <2>3, LoginsMove DEF LinkInv, LoginPCs
<1> QED BY <1>7, <1>8, <1>9 DEF LinkInv

LEMMA NextIs ==
    ASSUME [Next]_vars
    PROVE  \/ UNCHANGED vars
           \/ \E p \in Procs :
                \/ QuietStep(p) \/ Create(p) \/ GetByGoogleSub(p) \/ RefreshProfile(p)
                \/ UnlinkGoogle(p)
                \/ \E step \in {"loginLink", "link"}, next \in {"idle", "getByID"} :
                       LinkGoogleRow(p, step, next)
<1>1. \A p \in Procs : LoginLink(p) \/ Link(p) =>
          \E step \in {"loginLink", "link"}, next \in {"idle", "getByID"} :
              LinkGoogleRow(p, step, next)
    BY DEF LoginLink, Link
<1> QED BY <1>1 DEF Next, Quiescent, QuietStep

LEMMA LinkNext == TypeInv /\ LinkInv /\ [Next]_vars => LinkInv'
<1> SUFFICES ASSUME TypeInv, LinkInv, [Next]_vars PROVE LinkInv'
    OBVIOUS
<1>1. CASE UNCHANGED vars
    <2>1. LoginsHold'
        BY <1>1 DEF vars, LinkInv, LoginsHold
    <2> QED BY <1>1, <2>1, SameLinks DEF vars, LinkInv
<1>2. ASSUME NEW p \in Procs, QuietStep(p) PROVE LinkInv'
    BY <1>2, QuietSteps, LinkQuiet
<1> QED BY <1>1, <1>2, NextIs, LinkCreate, LinkGetByGoogleSub, LinkRow, LinkRefreshProfile,
           LinkUnlinkGoogle

LEMMA LinkInit == Init => LinkInv
<1> SUFFICES ASSUME Init PROVE LinkInv
    OBVIOUS
<1>1. Registered = {}
    BY DEF Init, Registered
<1>2. LoginsHold
    BY DEF Init, LoginsHold
<1> QED BY <1>1, <1>2 DEF LinkInv, SubsApart, DomainIsOfLinkedAccount

LEMMA LinkInvariance == Spec => []LinkInv
BY LinkInit, LinkNext, TypeInvariance, PTL DEF Spec

(* The hosted domain is the one of the account that is linked now, but for *)
(* the admins whose link was changed while a login that had found them was *)
(* under way: the UPDATE of such a login may come after an unlinking.      *)
THEOREM DomainCorrect == Spec => []DomainIsOfLinkedAccount
<1>1. LinkInv => DomainIsOfLinkedAccount
    BY DEF LinkInv
<1> QED BY <1>1, LinkInvariance, PTL

(* GoogleLogin: whoever a login is about to sign in is the admin the       *)
(* account is linked with at that moment, and nobody else is, unless the   *)
(* link was changed meanwhile.                                             *)
THEOREM SignInCorrect == Spec => []SignedInAdminIsLinked
<1>1. ASSUME TypeInv, LinkInv PROVE SignedInAdminIsLinked
    <2> SUFFICES ASSUME NEW p \in Procs, pc[p] = "getByID", job[p].admin \notin crossed
                 PROVE  WithSub(job[p].sub) = {job[p].admin}
        BY DEF SignedInAdminIsLinked
    <2>1. job[p].admin \in Registered /\ job[p].sub \in Subs
        BY <1>1, HandlerType DEF JobFits, SubPCs, AdminPCs
    <2>2. admins[job[p].admin].sub = job[p].sub
        BY <1>1 DEF LinkInv, LoginsHold
    <2>3. job[p].sub # Nil
        BY <2>1, AccountsAssumption
    <2> QED BY <1>1, <2>1, <2>2, <2>3 DEF LinkInv, SubsApart, WithSub
<1> QED BY <1>1, LinkInvariance, TypeInvariance, PTL

-----------------------------------------------------------------------------
(* Businesses *)

LEMMA CustomersMove ==
    ASSUME TypeInv, BusinessesHaveAdmins, UNCHANGED customers, givenUp \subseteq givenUp',
           \A a \in Registered : a \in Registered' /\ admins'[a].customer = admins[a].customer,
           NEW p \in Procs, NEW s, NEW j, GotoWith(p, s, j),
           \/ job[p].customer = Nil
           \/ job[p].customer \in givenUp'
           \/ \E a \in Registered' : admins'[a].customer = job[p].customer
    PROVE  BusinessesHaveAdmins'
<1> SUFFICES ASSUME NEW c \in Businesses'
             PROVE  \/ \E a \in Registered' : admins'[a].customer = c
                    \/ \E q \in Procs : job'[q].customer = c
                    \/ c \in givenUp'
    BY DEF BusinessesHaveAdmins
<1>1. c \in Businesses /\ c # Nil
    BY AccountsAssumption DEF Businesses
<1>2. ASSUME NEW q \in Procs, job[q].customer = c
      PROVE  \/ \E a \in Registered' : admins'[a].customer = c
             \/ \E r \in Procs : job'[r].customer = c
             \/ c \in givenUp'
    <2>1. CASE q = p
        BY <1>1, <1>2, <2>1
    <2>2. CASE q # p
        <3>1. job'[q] = job[q]
            BY <2>2 DEF TypeInv, TypeOK, GotoWith
        <3> QED BY <1>2, <3>1
    <2> QED BY <2>1, <2>2
<1>3. CASE \E a \in Registered : admins[a].customer = c
    BY <1>3
<1> QED BY <1>1, <1>2, <1>3 DEF BusinessesHaveAdmins

LEMMA SameOwners ==
    ASSUME UNCHANGED admins
    PROVE  \A a \in Registered : a \in Registered' /\ admins'[a].customer = admins[a].customer
BY DEF Registered

LEMMA IdleOwns ==
    ASSUME TypeInv, NEW p \in Procs, pc[p] # "create"
    PROVE  job[p].customer = Nil
BY HandlerType DEF JobFits

LEMMA OwnersCreateCustomer ==
    ASSUME TypeInv, BusinessesHaveAdmins, NEW p \in Procs, CreateCustomer(p), customers' # customers
    PROVE  BusinessesHaveAdmins'
<1>1. PICK c \in CustomerIds :
        /\ customers' = [customers EXCEPT ![c] = job[p].slug]
        /\ GotoWith(p, "create", [job[p] EXCEPT !.slug = Nil, !.customer = c])
    BY DEF CreateCustomer
<1>2. UNCHANGED <<admins, givenUp>> /\ Registered' = Registered /\ pc[p] = "createCustomer"
    BY DEF CreateCustomer, history, Registered
<1>3. PICK j : j = [job[p] EXCEPT !.slug = Nil, !.customer = c]
    OBVIOUS
<1>4. j.customer = c
    BY <1>3, HandlerType DEF Job
<1>5. \A q \in Procs : job'[q] = IF q = p THEN j ELSE job[q]
    BY <1>1, <1>3 DEF GotoWith, TypeInv, TypeOK
<1>6. \A d \in Businesses' : d = c \/ d \in Businesses
    BY <1>1 DEF Businesses, TypeInv, TypeOK
<1>7. job[p].customer = Nil
    BY <1>2, IdleOwns
<1>8. \A d \in Businesses : d # Nil
    BY AccountsAssumption DEF Businesses
<1> SUFFICES ASSUME NEW d \in Businesses'
             PROVE  \/ \E a \in Registered' : admins'[a].customer = d
                    \/ \E q \in Procs : job'[q].customer = d
                    \/ d \in givenUp'
    BY DEF BusinessesHaveAdmins
<1>9. CASE d = c
    BY <1>4, <1>5, <1>9
<1>10. CASE d \in Businesses
    <2>1. ASSUME NEW q \in Procs, job[q].customer = d PROVE job'[q].customer = d
        BY <1>5, <1>7, <1>8, <1>10, <2>1
    <2> QED BY <1>2, <1>10, <2>1 DEF BusinessesHaveAdmins
<1> QED BY <1>6, <1>9, <1>10

LEMMA OwnersCreate ==
    ASSUME TypeInv, BusinessesHaveAdmins, NEW p \in Procs, Create(p)
    PROVE  BusinessesHaveAdmins'
<1>1. pc[p] = "create" /\ Finish(p) /\ UNCHANGED customers
    BY CreateSteps
<1>2. CASE givenUp' = givenUp \cup {job[p].customer} /\ UNCHANGED admins
    BY <1>1, <1>2, SameOwners, CustomersMove DEF Finish
<1>3. ASSUME NEW a \in AdminIds \ Registered,
             admins' = [admins EXCEPT ![a] = NewAdmin(job[p])], UNCHANGED givenUp
      PROVE  BusinessesHaveAdmins'
    <2>1. PICK row \in Admin : row = NewAdmin(job[p]) /\ row.customer = job[p].customer
        BY <1>1, NewAdminType
    <2>2. admins'[a] = row /\ a \in Registered'
        BY <1>3, <2>1, NoAdminType DEF TypeInv, TypeOK, Registered
    <2>3. \A b \in Registered : b \in Registered' /\ admins'[b].customer = admins[b].customer
        BY <1>3 DEF TypeInv, TypeOK, Registered
    <2> QED BY <1>1, <1>3, <2>1, <2>2, <2>3, CustomersMove DEF Finish
<1> QED BY <1>2, <1>3, CreateSteps

(* The steps that write the link of an admin. *)
LEMMA OwnersWritten ==
    ASSUME TypeInv, NEW a \in Registered, NEW row \in Admin, row.customer = admins[a].customer,
           admins' = [admins EXCEPT ![a] = row]
    PROVE  \A b \in Registered : b \in Registered' /\ admins'[b].customer = admins[b].customer
BY WrittenType DEF Registered

LEMMA LinkedRows ==
    ASSUME TypeInv, NEW a \in Registered, NEW s
    PROVE  /\ [admins[a] EXCEPT !.sub = s, !.domain = s].customer = admins[a].customer
           /\ [admins[a] EXCEPT !.domain = s].customer = admins[a].customer
           /\ Unlinked(admins[a]).customer = admins[a].customer
BY RowChanges DEF Unlinked, Admin

LEMMA OwnersRow ==
    ASSUME TypeInv, BusinessesHaveAdmins, NEW p \in Procs, NEW step \in {"loginLink", "link"},
           NEW next \in {"idle", "getByID"}, LinkGoogleRow(p, step, next)
    PROVE  BusinessesHaveAdmins'
<1>1. /\ job[p].admin \in Registered /\ job[p].sub \in Subs /\ job[p].customer = Nil
      /\ UNCHANGED <<customers, givenUp>>
    BY LinkSteps, IdleOwns
<1>2. CASE Links(job[p].admin, job[p].sub)
           /\ GotoWith(p, next, IF next = "idle" THEN NoJob ELSE job[p])
    <2>1. PICK a \in Registered, s \in Subs : a = job[p].admin /\ s = job[p].sub
        BY <1>1
    <2>2. PICK row \in Admin : row = [admins[a] EXCEPT !.sub = s, !.domain = s]
        BY RowChanges
    <2>3. row.customer = admins[a].customer /\ admins' = [admins EXCEPT ![a] = row]
        BY <1>2, <2>1, <2>2, LinkedRows DEF Links
    <2>4. \A b \in Registered : b \in Registered' /\ admins'[b].customer = admins[b].customer
        BY <2>3, OwnersWritten
    <2> QED BY <1>1, <1>2, <2>4, CustomersMove
<1>3. CASE Finish(p) /\ UNCHANGED admins
    BY <1>1, <1>3, SameOwners, CustomersMove DEF Finish
<1> QED BY <1>2, <1>3, LinkSteps

LEMMA OwnersRefreshProfile ==
    ASSUME TypeInv, BusinessesHaveAdmins, NEW p \in Procs, RefreshProfile(p)
    PROVE  BusinessesHaveAdmins'
<1>1. /\ job[p].admin \in Registered /\ job[p].sub \in Subs /\ job[p].customer = Nil
      /\ UNCHANGED <<customers, givenUp>>
    BY HandlerType, IdleOwns DEF RefreshProfile, JobFits, SubPCs, AdminPCs, history
<1>2. CASE /\ admins' = [admins EXCEPT ![job[p].admin].domain = job[p].sub]
           /\ Goto(p, "getByID")
    <2>1. PICK a \in Registered, s \in Subs : a = job[p].admin /\ s = job[p].sub
        BY <1>1
    <2>2. PICK row \in Admin : row = [admins[a] EXCEPT !.domain = s]
        BY RowChanges
    <2>3. row.customer = admins[a].customer /\ admins' = [admins EXCEPT ![a] = row]
        BY <1>2, <2>1, <2>2, LinkedRows
    <2>4. \A b \in Registered : b \in Registered' /\ admins'[b].customer = admins[b].customer
        BY <2>3, OwnersWritten
    <2> QED BY <1>1, <1>2, <2>4, CustomersMove DEF Goto
<1>3. CASE Finish(p) /\ UNCHANGED admins
    BY <1>1, <1>3, SameOwners, CustomersMove DEF Finish
<1> QED BY <1>2, <1>3 DEF RefreshProfile, Fail

LEMMA OwnersUnlinkGoogle ==
    ASSUME TypeInv, BusinessesHaveAdmins, NEW p \in Procs, UnlinkGoogle(p)
    PROVE  BusinessesHaveAdmins'
<1>1. PICK a \in Registered : admins' = [admins EXCEPT ![a] = Unlinked(admins[a])]
    BY DEF UnlinkGoogle
<1>2. UNCHANGED <<customers, pc, job, givenUp>> /\ pc[p] = "idle"
    BY DEF UnlinkGoogle
<1>3. PICK row \in Admin : row = Unlinked(admins[a])
    BY RowChanges
<1>4. \A b \in Registered : b \in Registered' /\ admins'[b].customer = admins[b].customer
    BY <1>1, <1>3, LinkedRows, OwnersWritten
<1>5. PICK j : j = job[p]
    OBVIOUS
<1>6. GotoWith(p, "idle", j) /\ job[p].customer = Nil
    BY <1>2, <1>5, IdleOwns DEF GotoWith, TypeInv, TypeOK
<1> QED BY <1>2, <1>4, <1>6, CustomersMove

LEMMA OwnersNext == TypeInv /\ BusinessesHaveAdmins /\ [Next]_vars => BusinessesHaveAdmins'
<1> SUFFICES ASSUME TypeInv, BusinessesHaveAdmins, [Next]_vars PROVE BusinessesHaveAdmins'
    OBVIOUS
<1>1. CASE UNCHANGED vars
    BY <1>1 DEF vars, BusinessesHaveAdmins, Businesses, Registered
<1>2. ASSUME NEW p \in Procs, QuietStep(p), UNCHANGED customers PROVE BusinessesHaveAdmins'
    BY <1>2, QuietSteps, SameOwners, IdleOwns, CustomersMove
<1>3. ASSUME NEW p \in Procs, QuietStep(p), customers' # customers PROVE BusinessesHaveAdmins'
    <2>1. CreateCustomer(p)
        BY <1>3 DEF QuietStep, Onboard, GoogleOnboard, Register, SlugExists,
                    GoogleLogin, GetByEmail, GetByID, LinkGoogle, CheckLink
    <2> QED BY <1>3, <2>1, OwnersCreateCustomer
<1>4. ASSUME NEW p \in Procs, GetByGoogleSub(p) PROVE BusinessesHaveAdmins'
    <2>1. UNCHANGED <<customers, admins, givenUp>> /\ pc[p] # "create"
        BY <1>4 DEF GetByGoogleSub, history
    <2>2. \E s, j : GotoWith(p, s, j)
        BY <1>4 DEF GetByGoogleSub, Goto, Finish, Fail
    <2> QED BY <2>1, <2>2, SameOwners, IdleOwns, CustomersMove
<1> QED BY <1>1, <1>2, <1>3, <1>4, NextIs, OwnersCreate, OwnersRow, OwnersRefreshProfile,
           OwnersUnlinkGoogle

(* A business is without an admin only while its registration is under way *)
(* or when that ended before the last step: two registrations at a time do *)
(* not get each other's.                                                   *)
THEOREM BusinessesCorrect == Spec => []BusinessesHaveAdmins
<1>1. Init => BusinessesHaveAdmins
    BY DEF Init, BusinessesHaveAdmins, Businesses
<1> QED BY <1>1, OwnersNext, TypeInvariance, PTL DEF Spec


-----------------------------------------------------------------------------
(***************************************************************************)
(* The programs of a business, which other tabs of the same panel edit:    *)
(* module Programs, for any systems, tabs, names, limits and ratios, any   *)
(* bounds, and any failures.                                               *)
(***************************************************************************)

(* What was not edited is what the page shows. *)
SentFrom(j, g) ==
    /\ g # NoPage /\ g.system = j.system
    /\ "name" \notin j.edits => j.in.name = g.link.name
    /\ "ratio" \notin j.edits => j.in.ratio = g.config.ratio
    /\ "limit" \notin j.edits => j.in.limit = g.config.limit

(* An update from a page, whose switch turns the program off, and one from *)
(* a client of the API.                                                    *)
SentByPage(j, g) ==
    /\ SentFrom(j, g)
    /\ j.in.name \in Names /\ j.in.ratio \in Ratios
    /\ j.in.active = IF "active" \in j.edits THEN FALSE ELSE Null

SentByClient(j, g) == g = NoPage /\ j.edits = Given(j.in) \cup {"limit"}

(* The row of customer_sisfi with the fields of a request over it. *)
Over(in, row) == [name |-> Coalesce(in.name, row.name),
                  active |-> Coalesce(in.active, row.active)]

(* A request at step st that holds j, of a tab that shows g. *)
TabFits(st, j, g) ==
    /\ st # "idle" => j.system \in Systems
    /\ st \in {"insert_link", "insert_config"} =>
         /\ g = NoPage /\ j.edits = Fields /\ j.system # "pushcard"
         /\ j.in.name \in Names /\ j.in.active = TRUE /\ j.in.ratio \in Ratios
    /\ st = "insert_config" => j.row = [name |-> j.in.name, active |-> TRUE]
    /\ st = "link" =>
         /\ g = NoPage /\ j.edits = {"name", "active"}
         /\ j.in.name \in Names /\ j.in.active = TRUE
    /\ st = "upsert_config" =>
         /\ j.system = "pushcard" /\ j.in.ratio \in Ratios
         /\ j.edits \subseteq {"ratio", "limit"}
         /\ \/ SentFrom(j, g)
            \/ g = NoPage /\ j.edits = {"ratio", "limit"}
    /\ st \in {"update_link", "update_config"} =>
         /\ j.system # "pushcard"
         /\ SentByPage(j, g) \/ SentByClient(j, g)
    /\ st = "update_config" => j.row \in LinkRows
    /\ st = "sisfi_update" =>
         /\ g = NoPage /\ j.row \in LinkRows
         /\ j.edits = {f \in {"name", "active"} : j.in[f] # Null}

TabsFit == \A p \in Tabs : TabFits(stage[p], call[p], page[p])

RowsType ==
    /\ link \in [Systems -> LinkRows \cup {NoLink}]
    /\ config \in [Systems -> ConfigRows \cup {NoConfig}]
    /\ half \subseteq Systems /\ overlapped \subseteq Systems
    /\ asked \in [Systems -> Values]

TabsType ==
    /\ stage \in [Tabs -> Stages]
    /\ call \in [Tabs -> Call]
    /\ page \in [Tabs -> Page \cup {NoPage}]
    /\ outdated \subseteq Tabs

PanelType == RowsType /\ TabsType /\ TabsFit

LEMMA NullsApart ==
    /\ NoLink \notin LinkRows /\ NoConfig \notin ConfigRows
    /\ NoPage \notin Page
    /\ Null \notin Names /\ Null \notin Ratios /\ Null \notin Limits
    /\ Null # TRUE /\ Null # FALSE
<1>1. /\ NoLink \notin LinkRows /\ NoConfig \notin ConfigRows
      /\ Null \notin Names /\ Null \notin Ratios /\ Null \notin Limits
      /\ Null # TRUE /\ Null # FALSE
    BY ProgramsAssumption DEF NoLink, LinkRows, NoConfig, ConfigRows
<1>2. NoPage \notin Page
    BY <1>1 DEF NoPage, Page
<1> QED BY <1>1, <1>2

-----------------------------------------------------------------------------
(* Rows *)

(* A program is linked and configured, or only linked and among the half.  *)
WholeOrHalf ==
    \A s \in Systems :
        /\ config[s] # NoConfig => link[s] # NoLink
        /\ link[s] # NoLink => config[s] # NoConfig \/ s \in half

(* What is updated, or shown, is there; and what is shown was active. *)
IsThere(p) ==
    /\ stage[p] \in {"upsert_config", "update_link", "update_config", "sisfi_update"} =>
         link[call[p].system] # NoLink
    /\ page[p] # NoPage =>
         config[page[p].system] # NoConfig /\ page[p].link.active = TRUE

ThereInv == \A p \in Tabs : IsThere(p)

Holds(p, s) == stage[p] \in {"insert_config", "update_config"} /\ call[p].system = s

(* Who holds a row holds it alone, and is about to write it as it is. *)
HeldInv ==
    \A p \in Tabs : \A s \in Systems : Holds(p, s) =>
        /\ \A q \in Tabs \ {p} : ~Holds(q, s)
        /\ stage[p] = "insert_config" => link[s] = NoLink
        /\ stage[p] = "update_config" => call[p].row = Over(call[p].in, link[s])

(* What a tab shows, or has read, is as it is unless the tab is outdated. *)
Fresh(p) ==
    /\ page[p] # NoPage => /\ page[p].link = link[page[p].system]
                           /\ page[p].config = config[page[p].system]
    /\ stage[p] = "sisfi_update" =>
         call[p].row = Over(call[p].in, link[call[p].system])

FreshInv == \A p \in Tabs \ outdated : Fresh(p)

Agrees(l, c, a) ==
    /\ l # NoLink => l.name = a.name /\ l.active = a.active
    /\ c # NoConfig => c.ratio = a.ratio /\ c.limit = a.limit

AgreeInv == \A s \in Systems \ overlapped : Agrees(link[s], config[s], asked[s])

PanelInv == PanelType /\ WholeOrHalf /\ ThereInv /\ HeldInv /\ FreshInv /\ AgreeInv

-----------------------------------------------------------------------------
(* The kinds of steps *)

Turns(p, st, j, g) == /\ stage' = [stage EXCEPT ![p] = st]
                      /\ call' = [call EXCEPT ![p] = j]
                      /\ page' = [page EXCEPT ![p] = g]
                      /\ st \in Stages /\ j \in Call
                      /\ g \in Page \cup {NoPage}
                      /\ TabFits(st, j, g)

(* Rows stay as they are. *)
Keeps == UNCHANGED <<link, config, half, asked, overlapped>>

(* A request that is not from a page, or a page that is opened. *)
Starts(p, st, j, g) ==
    /\ Turns(p, st, j, g) /\ Keeps /\ outdated' = outdated \ {p}
    /\ st \in {"idle", "insert_link", "link", "upsert_config", "update_link", "sisfi_update"}
    /\ g # NoPage =>
         /\ g.link = link[g.system] /\ g.config = config[g.system]
         /\ g.link.active = TRUE /\ g.config # NoConfig
    /\ st \in {"upsert_config", "update_link", "sisfi_update"} => link[j.system] # NoLink
    /\ st = "sisfi_update" => j.row = Over(j.in, link[j.system])

(* A page is saved, or a request ends without having written. *)
Goes(p, st, j) ==
    /\ Turns(p, st, j, page[p]) /\ Keeps /\ UNCHANGED outdated
    /\ st \in {"idle", "upsert_config", "update_link"}
    /\ st # "idle" => page[p] # NoPage /\ page[p].system = j.system

(* A transaction gets the row. *)
Takes(p, st, j) ==
    /\ Turns(p, st, j, page[p]) /\ Keeps /\ UNCHANGED outdated
    /\ ~Held(j.system)
    /\ \/ st = "insert_config" /\ link[j.system] = NoLink
       \/ /\ st = "update_config" /\ link[j.system] # NoLink
          /\ j.row = Over(j.in, link[j.system])

(* p writes the rows l and c of s. *)
Writes(p, s, l, c, st, j) ==
    /\ Turns(p, st, j, NoPage) /\ Wrote(p, s)
    /\ s = call[p].system /\ s \in Systems
    /\ link' = [link EXCEPT ![s] = l] /\ l \in LinkRows
    /\ config' = [config EXCEPT ![s] = c] /\ c \in ConfigRows \cup {NoConfig}
    /\ config[s] # NoConfig => c # NoConfig
    /\ half' \subseteq Systems /\ half \ {s} = half' \ {s}
    /\ c # NoConfig \/ s \in half'
    /\ st = "idle" \/ (st = "upsert_config" /\ j.system = s)
    /\ \A q \in Tabs \ {p} : ~Holds(q, s)

(* It writes what was asked for, unless it was outdated, ... *)
WritesAsAsked(p, s, l, c) ==
    s \notin overlapped /\ p \notin outdated => Agrees(l, c, asked'[s])

(* ... and makes active again what it was asked to, or had read before. *)
Reactivates(p, s, l) ==
    link[s].active = FALSE /\ l.active = TRUE =>
        /\ stage'[p] = "idle"
        /\ \/ /\ stage[p] \in {"update_config", "sisfi_update"}
              /\ "active" \in call[p].edits /\ call[p].in.active = TRUE
           \/ stage[p] = "sisfi_update" /\ p \in outdated

PanelStep ==
    \/ \E p \in Tabs : \E st, j, g : Starts(p, st, j, g)
    \/ \E p \in Tabs : \E st, j : Goes(p, st, j) \/ Takes(p, st, j)
    \/ \E p \in Tabs : \E s, l, c, st, j : /\ Writes(p, s, l, c, st, j)
                                            /\ WritesAsAsked(p, s, l, c)
                                            /\ Reactivates(p, s, l)
    \/ UNCHANGED <<link, config, stage, call, page, half, asked, outdated, overlapped>>

LEMMA Turned ==
    ASSUME PanelType, NEW p \in Tabs, NEW st, NEW j, NEW g, Turns(p, st, j, g),
           outdated' \subseteq Tabs
    PROVE  /\ TabsType' /\ TabsFit'
           /\ stage'[p] = st /\ call'[p] = j /\ page'[p] = g
           /\ \A q \in Tabs \ {p} : /\ stage'[q] = stage[q] /\ call'[q] = call[q]
                                    /\ page'[q] = page[q]
<1>1. /\ TabsType'
      /\ stage'[p] = st /\ call'[p] = j /\ page'[p] = g
      /\ \A q \in Tabs \ {p} : /\ stage'[q] = stage[q] /\ call'[q] = call[q]
                               /\ page'[q] = page[q]
    BY DEF PanelType, TabsType, Turns
<1>2. \A q \in Tabs : TabFits(stage[q], call[q], page[q])
    BY DEF PanelType, TabsFit
<1>3. TabFits(st, j, g)
    BY DEF Turns
<1>4. ASSUME NEW q \in Tabs PROVE TabFits(stage'[q], call'[q], page'[q])
    BY <1>1, <1>2, <1>3
<1> QED BY <1>1, <1>4 DEF TabsFit

(* What is asked for after a write. *)
LEMMA AskedWritten ==
    ASSUME PanelType, NEW p \in Tabs, NEW s \in Systems, Wrote(p, s)
    PROVE  /\ asked' \in [Systems -> Values]
           /\ \A t \in Systems \ {s} : asked'[t] = asked[t]
           /\ \A f \in Fields :
                asked'[s][f] = IF f \in call[p].edits THEN call[p].in[f] ELSE asked[s][f]
           /\ outdated' \subseteq Tabs /\ overlapped' \subseteq Systems
           /\ overlapped' = IF p \in outdated THEN overlapped \cup {s} ELSE overlapped
<1>1. PICK in, old, E : in = call[p].in /\ old = asked[s] /\ E = call[p].edits
    OBVIOUS
<1>2. in \in Values /\ old \in Values
    BY <1>1 DEF PanelType, TabsType, RowsType, Call
<1>3. PICK new : new = [f \in Fields |-> IF f \in E THEN in[f] ELSE old[f]]
    OBVIOUS
<1>4. new \in Values
    BY <1>2, <1>3 DEF Values, Fields
<1>5. asked' = [asked EXCEPT ![s] = new]
    BY <1>1, <1>3 DEF Wrote
<1>6. asked' \in [Systems -> Values] /\ asked'[s] = new
      /\ \A t \in Systems \ {s} : asked'[t] = asked[t]
    BY <1>4, <1>5 DEF PanelType, RowsType
<1>7. outdated' \subseteq Tabs /\ overlapped' \subseteq Systems
      /\ overlapped' = IF p \in outdated THEN overlapped \cup {s} ELSE overlapped
    BY DEF Wrote, PanelType, RowsType, TabsType
<1> QED BY <1>1, <1>3, <1>6, <1>7

(* Which tabs a write leaves up to date. *)
LEMMA StillFresh ==
    ASSUME PanelType, NEW p \in Tabs, NEW s \in Systems, Wrote(p, s),
           NEW q \in Tabs \ outdated', q # p
    PROVE  /\ q \notin outdated
           /\ page[q].system # s
           /\ stage[q] = "sisfi_update" => call[q].system # s
BY DEF Wrote

LEMMA PanelTypeKept ==
    ASSUME PanelType, PanelStep
    PROVE  PanelType'
<1>1. ASSUME NEW p \in Tabs, NEW st, NEW j, NEW g, Turns(p, st, j, g), Keeps,
             outdated' \subseteq outdated
      PROVE  PanelType'
    <2>1. TabsType' /\ TabsFit'
        BY <1>1, Turned DEF PanelType, TabsType
    <2> QED BY <1>1, <2>1 DEF PanelType, RowsType, Keeps
<1>2. ASSUME NEW p \in Tabs, NEW s, NEW l, NEW c, NEW st, NEW j, Writes(p, s, l, c, st, j)
      PROVE  PanelType'
    <2>1. /\ asked' \in [Systems -> Values]
          /\ outdated' \subseteq Tabs /\ overlapped' \subseteq Systems
        BY <1>2, AskedWritten DEF Writes
    <2>2. TabsType' /\ TabsFit'
        BY <1>2, <2>1, Turned DEF Writes
    <2>3. RowsType'
        BY <1>2, <2>1 DEF Writes, PanelType, RowsType
    <2> QED BY <2>2, <2>3 DEF PanelType
<1>3. ASSUME UNCHANGED <<link, config, stage, call, page, half, asked, outdated, overlapped>>
      PROVE  PanelType'
    BY <1>3 DEF PanelType, RowsType, TabsType, TabsFit
<1>4. ASSUME NEW p \in Tabs, NEW st, NEW j, NEW g,
             Starts(p, st, j, g) \/ (g = page[p] /\ (Goes(p, st, j) \/ Takes(p, st, j)))
      PROVE  PanelType'
    BY <1>1, <1>4 DEF Starts, Goes, Takes
<1> QED BY <1>2, <1>3, <1>4 DEF PanelStep

LEMMA WholeKept ==
    ASSUME PanelType, WholeOrHalf, PanelStep
    PROVE  WholeOrHalf'
<1>1. ASSUME NEW p \in Tabs, NEW s, NEW l, NEW c, NEW st, NEW j, Writes(p, s, l, c, st, j)
      PROVE  WholeOrHalf'
    <2>1. l # NoLink
        BY <1>1, NullsApart DEF Writes, PanelType
    <2>2. ASSUME NEW t \in Systems
          PROVE  /\ link'[t] = IF t = s THEN l ELSE link[t]
                 /\ config'[t] = IF t = s THEN c ELSE config[t]
                 /\ t # s => (t \in half' <=> t \in half)
        BY <1>1 DEF Writes, PanelType, RowsType
    <2> QED BY <1>1, <2>1, <2>2 DEF Writes, WholeOrHalf
<1>2. ASSUME Keeps PROVE WholeOrHalf'
    BY <1>2 DEF Keeps, WholeOrHalf
<1> QED BY <1>1, <1>2 DEF PanelStep, Starts, Goes, Takes, Keeps

LEMMA ThereKept ==
    ASSUME PanelType, WholeOrHalf, ThereInv, PanelStep
    PROVE  ThereInv'
<1>1. ASSUME NEW p \in Tabs, NEW s, NEW l, NEW c, NEW st, NEW j, Writes(p, s, l, c, st, j)
      PROVE  ThereInv'
    <2>1. l # NoLink
        BY <1>1, NullsApart DEF Writes, PanelType
    <2>2. ASSUME NEW t, link[t] # NoLink \/ t = s, t \in Systems
          PROVE  link'[t] # NoLink
        BY <1>1, <2>1, <2>2 DEF Writes, PanelType, RowsType
    <2>3. ASSUME NEW t \in Systems, config[t] # NoConfig
          PROVE  config'[t] # NoConfig
        BY <1>1, <2>3 DEF Writes, PanelType, RowsType
    <2>4. outdated' \subseteq Tabs
        BY <1>1, AskedWritten DEF Writes
    <2>5. /\ stage'[p] = st /\ call'[p] = j /\ page'[p] = NoPage
          /\ \A q \in Tabs \ {p} : /\ stage'[q] = stage[q] /\ call'[q] = call[q]
                                   /\ page'[q] = page[q]
        BY <1>1, <2>4, Turned DEF Writes
    <2>6. IsThere(p)'
        BY <1>1, <2>2, <2>5 DEF IsThere, Writes
    <2>7. ASSUME NEW q \in Tabs \ {p} PROVE IsThere(q)'
        <3>1. IsThere(q) /\ TabFits(stage[q], call[q], page[q])
            BY DEF ThereInv, PanelType, TabsFit
        <3>2. page[q] # NoPage => page[q].system \in Systems
            BY DEF PanelType, TabsType, Page
        <3>3. stage[q] # "idle" => call[q].system \in Systems
            BY <3>1 DEF TabFits
        <3> QED BY <2>2, <2>3, <2>5, <3>1, <3>2, <3>3 DEF IsThere
    <2> QED BY <2>6, <2>7 DEF ThereInv
<1>2. ASSUME NEW p \in Tabs, NEW st, NEW j, NEW g, Turns(p, st, j, g), Keeps,
             outdated' \subseteq outdated,
             st \in {"upsert_config", "update_link", "update_config", "sisfi_update"} =>
                 link[j.system] # NoLink,
             g # NoPage =>
                 config[g.system] # NoConfig /\ g.link.active = TRUE
      PROVE  ThereInv'
    <2>1. /\ stage'[p] = st /\ call'[p] = j /\ page'[p] = g
          /\ \A q \in Tabs \ {p} : /\ stage'[q] = stage[q] /\ call'[q] = call[q]
                                   /\ page'[q] = page[q]
        BY <1>2, Turned DEF PanelType, TabsType
    <2>2. IsThere(p)'
        BY <1>2, <2>1 DEF IsThere, Keeps
    <2>3. \A q \in Tabs \ {p} : IsThere(q)'
        BY <1>2, <2>1 DEF IsThere, Keeps, ThereInv
    <2> QED BY <2>2, <2>3 DEF ThereInv
<1>3. ASSUME NEW p \in Tabs, NEW st, NEW j, NEW g, Starts(p, st, j, g)
      PROVE  ThereInv'
    BY <1>2, <1>3 DEF Starts
<1>4. ASSUME NEW p \in Tabs, NEW st, NEW j, Goes(p, st, j) \/ Takes(p, st, j)
      PROVE  ThereInv'
    <2>1. IsThere(p)
        BY DEF ThereInv
    <2>2. page[p] # NoPage => page[p].system \in Systems
        BY DEF PanelType, TabsType, Page
    <2>3. page[p] # NoPage => link[page[p].system] # NoLink
        BY <2>1, <2>2 DEF IsThere, WholeOrHalf
    <2>4. st \in {"upsert_config", "update_link", "update_config", "sisfi_update"} =>
            link[j.system] # NoLink
        BY <1>4, <2>3 DEF Goes, Takes
    <2> QED BY <1>2, <1>4, <2>1, <2>4 DEF Goes, Takes, IsThere
<1>5. ASSUME UNCHANGED <<link, config, stage, call, page, half, asked, outdated, overlapped>>
      PROVE  ThereInv'
    BY <1>5 DEF ThereInv, IsThere
<1> QED BY <1>1, <1>3, <1>4, <1>5 DEF PanelStep

LEMMA HeldKept ==
    ASSUME PanelType, HeldInv, PanelStep
    PROVE  HeldInv'
<1>1. ASSUME NEW p \in Tabs, NEW s, NEW l, NEW c, NEW st, NEW j, Writes(p, s, l, c, st, j)
      PROVE  HeldInv'
    <2>1. outdated' \subseteq Tabs
        BY <1>1, AskedWritten DEF Writes
    <2>2. /\ stage'[p] = st
          /\ \A q \in Tabs \ {p} : stage'[q] = stage[q] /\ call'[q] = call[q]
        BY <1>1, <2>1, Turned DEF Writes
    <2>3. \A t : ~Holds(p, t)'
        BY <1>1, <2>2 DEF Writes, Holds
    <2>4. \A q \in Tabs \ {p} : \A t : Holds(q, t)' <=> Holds(q, t)
        BY <2>2 DEF Holds
    <2>5. \A t \in Systems \ {s} : link'[t] = link[t]
        BY <1>1 DEF Writes, PanelType, RowsType
    <2>6. ASSUME NEW q \in Tabs, NEW t \in Systems, Holds(q, t)'
          PROVE  /\ \A x \in Tabs \ {q} : ~Holds(x, t)'
                 /\ stage'[q] = "insert_config" => link'[t] = NoLink
                 /\ stage'[q] = "update_config" =>
                      call'[q].row = Over(call'[q].in, link'[t])
        <3>1. q # p /\ Holds(q, t)
            BY <2>3, <2>4, <2>6
        <3>2. t # s
            BY <1>1, <3>1 DEF Writes
        <3>3. /\ \A x \in Tabs \ {q} : ~Holds(x, t)
              /\ stage[q] = "insert_config" => link[t] = NoLink
              /\ stage[q] = "update_config" => call[q].row = Over(call[q].in, link[t])
            BY <3>1 DEF HeldInv
        <3>4. \A x \in Tabs \ {q} : ~Holds(x, t)'
            BY <2>3, <2>4, <3>3
        <3> QED BY <2>2, <2>5, <3>1, <3>2, <3>3, <3>4
    <2> QED BY <2>6 DEF HeldInv
<1>2. ASSUME NEW p \in Tabs, NEW st, NEW j, NEW g, Turns(p, st, j, g), Keeps,
             outdated' \subseteq outdated,
             st \in {"insert_config", "update_config"} => Takes(p, st, j)
      PROVE  HeldInv'
    <2>1. /\ stage'[p] = st /\ call'[p] = j
          /\ \A q \in Tabs \ {p} : stage'[q] = stage[q] /\ call'[q] = call[q]
        BY <1>2, Turned DEF PanelType, TabsType
    <2>2. \A q \in Tabs \ {p} : \A t : Holds(q, t)' <=> Holds(q, t)
        BY <2>1 DEF Holds
    <2>3. Holds(p, j.system)' => \A q \in Tabs : ~Holds(q, j.system)
        BY <1>2, <2>1 DEF Holds, Takes, Held
    <2>4. \A t : Holds(p, t)' => t = j.system
        BY <2>1 DEF Holds
    <2>5. ASSUME NEW q \in Tabs, NEW t \in Systems, Holds(q, t)'
          PROVE  /\ \A x \in Tabs \ {q} : ~Holds(x, t)'
                 /\ stage'[q] = "insert_config" => link'[t] = NoLink
                 /\ stage'[q] = "update_config" =>
                      call'[q].row = Over(call'[q].in, link'[t])
        <3>1. CASE q = p
            <4>1. t = j.system /\ \A x \in Tabs \ {q} : ~Holds(x, t)'
                BY <2>2, <2>3, <2>4, <2>5, <3>1
            <4>2. Takes(p, st, j)
                BY <1>2, <2>1, <2>5, <3>1 DEF Holds
            <4> QED BY <2>1, <3>1, <4>1, <4>2 DEF Takes, Keeps
        <3>2. CASE q # p
            <4>1. Holds(q, t)
                BY <2>2, <2>5, <3>2
            <4>2. \A x \in Tabs \ {q} : ~Holds(x, t)'
                BY <2>2, <2>3, <2>4, <4>1 DEF HeldInv
            <4> QED BY <1>2, <2>1, <3>2, <4>1, <4>2 DEF HeldInv, Keeps
        <3> QED BY <3>1, <3>2
    <2> QED BY <2>5 DEF HeldInv
<1>3. ASSUME NEW p \in Tabs, NEW st, NEW j, NEW g, Starts(p, st, j, g)
      PROVE  HeldInv'
    BY <1>2, <1>3 DEF Starts
<1>4. ASSUME NEW p \in Tabs, NEW st, NEW j, Goes(p, st, j) \/ Takes(p, st, j)
      PROVE  HeldInv'
    BY <1>2, <1>4 DEF Goes, Takes
<1>5. ASSUME UNCHANGED <<link, config, stage, call, page, half, asked, outdated, overlapped>>
      PROVE  HeldInv'
    BY <1>5 DEF HeldInv, Holds
<1> QED BY <1>1, <1>3, <1>4, <1>5 DEF PanelStep

LEMMA FreshKept ==
    ASSUME PanelType, FreshInv, PanelStep
    PROVE  FreshInv'
<1>1. ASSUME NEW p \in Tabs, NEW s, NEW l, NEW c, NEW st, NEW j, Writes(p, s, l, c, st, j)
      PROVE  FreshInv'
    <2>1. outdated' \subseteq Tabs
        BY <1>1, AskedWritten DEF Writes
    <2>2. /\ stage'[p] = st /\ page'[p] = NoPage
          /\ \A q \in Tabs \ {p} : /\ stage'[q] = stage[q] /\ call'[q] = call[q]
                                   /\ page'[q] = page[q]
        BY <1>1, <2>1, Turned DEF Writes
    <2>3. \A t \in Systems \ {s} : link'[t] = link[t] /\ config'[t] = config[t]
        BY <1>1 DEF Writes, PanelType, RowsType
    <2>4. Fresh(p)'
        BY <1>1, <2>2 DEF Writes, Fresh
    <2>5. ASSUME NEW q \in Tabs \ outdated', q # p PROVE Fresh(q)'
        <3>1. /\ q \notin outdated /\ page[q].system # s
              /\ stage[q] = "sisfi_update" => call[q].system # s
            BY <1>1, <2>5, StillFresh DEF Writes
        <3>2. Fresh(q) /\ TabFits(stage[q], call[q], page[q])
            BY <3>1 DEF FreshInv, PanelType, TabsFit
        <3>3. page[q] # NoPage => page[q].system \in Systems
            BY DEF PanelType, TabsType, Page
        <3>4. stage[q] = "sisfi_update" => call[q].system \in Systems
            BY <3>2 DEF TabFits
        <3> QED BY <2>2, <2>3, <2>5, <3>1, <3>2, <3>3, <3>4 DEF Fresh
    <2> QED BY <2>4, <2>5 DEF FreshInv
<1>2. ASSUME NEW p \in Tabs, NEW st, NEW j, NEW g, Turns(p, st, j, g), Keeps,
             outdated \subseteq outdated' \cup {p}, outdated' \subseteq outdated,
             p \notin outdated' =>
                 /\ g # NoPage => g.link = link[g.system] /\ g.config = config[g.system]
                 /\ st = "sisfi_update" => j.row = Over(j.in, link[j.system])
      PROVE  FreshInv'
    <2>1. /\ stage'[p] = st /\ call'[p] = j /\ page'[p] = g
          /\ \A q \in Tabs \ {p} : /\ stage'[q] = stage[q] /\ call'[q] = call[q]
                                   /\ page'[q] = page[q]
        BY <1>2, Turned DEF PanelType, TabsType
    <2>2. p \notin outdated' => Fresh(p)'
        BY <1>2, <2>1 DEF Fresh, Keeps
    <2>3. \A q \in Tabs \ outdated' : q # p => Fresh(q)'
        BY <1>2, <2>1 DEF FreshInv, Fresh, Keeps
    <2> QED BY <2>2, <2>3 DEF FreshInv
<1>3. ASSUME NEW p \in Tabs, NEW st, NEW j, NEW g, Starts(p, st, j, g)
      PROVE  FreshInv'
    BY <1>2, <1>3 DEF Starts
<1>4. ASSUME NEW p \in Tabs, NEW st, NEW j, Goes(p, st, j) \/ Takes(p, st, j)
      PROVE  FreshInv'
    <2>1. p \notin outdated => Fresh(p)
        BY DEF FreshInv
    <2> QED BY <1>2, <1>4, <2>1 DEF Goes, Takes, Fresh
<1>5. ASSUME UNCHANGED <<link, config, stage, call, page, half, asked, outdated, overlapped>>
      PROVE  FreshInv'
    BY <1>5 DEF FreshInv, Fresh
<1> QED BY <1>1, <1>3, <1>4, <1>5 DEF PanelStep

LEMMA AgreeKept ==
    ASSUME PanelType, AgreeInv, PanelStep
    PROVE  AgreeInv'
<1>1. ASSUME NEW p \in Tabs, NEW s, NEW l, NEW c, NEW st, NEW j, Writes(p, s, l, c, st, j),
             WritesAsAsked(p, s, l, c)
      PROVE  AgreeInv'
    <2>1. /\ \A t \in Systems \ {s} : asked'[t] = asked[t]
          /\ overlapped' = IF p \in outdated THEN overlapped \cup {s} ELSE overlapped
        BY <1>1, AskedWritten DEF Writes
    <2>2. /\ \A t \in Systems \ {s} : link'[t] = link[t] /\ config'[t] = config[t]
          /\ link'[s] = l /\ config'[s] = c
        BY <1>1 DEF Writes, PanelType, RowsType
    <2>3. s \notin overlapped' => Agrees(link'[s], config'[s], asked'[s])
        BY <1>1, <2>1, <2>2 DEF WritesAsAsked
    <2> QED BY <2>1, <2>2, <2>3 DEF AgreeInv
<1>2. ASSUME Keeps PROVE AgreeInv'
    BY <1>2 DEF Keeps, AgreeInv
<1> QED BY <1>1, <1>2 DEF PanelStep, Starts, Goes, Takes, Keeps

-----------------------------------------------------------------------------
(* Every action is a step of one of these kinds *)

LEMMA PanelNoJob == NoCall \in Call /\ "idle" \in Stages
BY DEF NoCall, Call, NoValues, Values, Stages

LEMMA TabType ==
    ASSUME PanelType, NEW p \in Tabs
    PROVE  /\ stage[p] \in Stages /\ call[p] \in Call
           /\ page[p] \in Page \cup {NoPage}
           /\ TabFits(stage[p], call[p], page[p])
           /\ call[p].in \in Values /\ call[p].edits \subseteq Fields
           /\ [stage EXCEPT ![p] = stage[p]] = stage
           /\ [call EXCEPT ![p] = call[p]] = call
           /\ [page EXCEPT ![p] = page[p]] = page
<1>1. /\ stage[p] \in Stages /\ call[p] \in Call
      /\ page[p] \in Page \cup {NoPage}
      /\ TabFits(stage[p], call[p], page[p])
      /\ [stage EXCEPT ![p] = stage[p]] = stage
      /\ [call EXCEPT ![p] = call[p]] = call
      /\ [page EXCEPT ![p] = page[p]] = page
    BY DEF PanelType, TabsType, TabsFit
<1>2. call[p].in \in Values /\ call[p].edits \subseteq Fields
    BY <1>1 DEF Call
<1> QED BY <1>1, <1>2

(* A request that ends without having written. *)
LEMMA EndsGoes ==
    ASSUME PanelType, NEW p \in Tabs, Answer(p), Keeps, UNCHANGED <<page, outdated>>
    PROVE  Goes(p, "idle", NoCall)
<1>1. TabFits("idle", NoCall, page[p])
    BY DEF TabFits
<1>2. Turns(p, "idle", NoCall, page[p])
    BY <1>1, PanelNoJob, TabType DEF Turns, Answer, Proceed
<1> QED BY <1>2 DEF Goes

LEMMA CreateStarts ==
    ASSUME PanelType, NEW p \in Tabs, NEW s \in Systems, CreateProgram(p, s)
    PROVE  \E j : Starts(p, "insert_link", j, NoPage)
<1>1. PICK n \in Names, r \in Ratios :
        Proceed(p, "insert_link",
            [NoCall EXCEPT !.system = s, !.edits = Fields,
                !.in = [name |-> n, active |-> TRUE, ratio |-> r, limit |-> Null]])
    BY DEF CreateProgram
<1>2. PICK in : in = [name |-> n, active |-> TRUE, ratio |-> r, limit |-> Null]
    OBVIOUS
<1>3. in \in Values /\ in.name = n /\ in.active = TRUE /\ in.ratio = r
    BY <1>2 DEF Values
<1>4. PICK j : j = [NoCall EXCEPT !.system = s, !.edits = Fields, !.in = in]
    OBVIOUS
<1>5. j \in Call /\ j.system = s /\ j.in = in /\ j.edits = Fields
    BY <1>3, <1>4 DEF Call, NoCall
<1>6. TabFits("insert_link", j, NoPage)
    BY <1>3, <1>5 DEF TabFits, CreateProgram
<1>7. Turns(p, "insert_link", j, NoPage)
    BY <1>1, <1>2, <1>4, <1>5, <1>6 DEF Turns, Proceed, CreateProgram, Leave, Stages
<1>8. Starts(p, "insert_link", j, NoPage)
    BY <1>7 DEF Starts, Keeps, CreateProgram, Leave, rows
<1> QED BY <1>8

LEMMA LinkStarts ==
    ASSUME PanelType, NEW p \in Tabs, NEW s \in Systems, LinkSystem(p, s)
    PROVE  \E j : Starts(p, "link", j, NoPage)
<1>1. PICK n \in Names :
        Proceed(p, "link",
            [NoCall EXCEPT !.system = s, !.edits = {"name", "active"},
                !.in = [NoValues EXCEPT !.name = n, !.active = TRUE]])
    BY DEF LinkSystem
<1>2. PICK in : in = [NoValues EXCEPT !.name = n, !.active = TRUE]
    OBVIOUS
<1>3. in \in Values /\ in.name = n /\ in.active = TRUE
    BY <1>2 DEF Values, NoValues
<1>4. PICK j : j = [NoCall EXCEPT !.system = s, !.edits = {"name", "active"}, !.in = in]
    OBVIOUS
<1>5. j \in Call /\ j.system = s /\ j.in = in /\ j.edits = {"name", "active"}
    <2>1. {"name", "active"} \in SUBSET Fields
        BY DEF Fields
    <2> QED BY <1>3, <1>4, <2>1 DEF Call, NoCall
<1>6. TabFits("link", j, NoPage)
    BY <1>3, <1>5 DEF TabFits
<1>7. Turns(p, "link", j, NoPage)
    BY <1>1, <1>2, <1>4, <1>5, <1>6 DEF Turns, Proceed, LinkSystem, Leave, Stages
<1>8. Starts(p, "link", j, NoPage)
    BY <1>7 DEF Starts, Keeps, LinkSystem, Leave, rows
<1> QED BY <1>8

LEMMA OverType ==
    ASSUME NEW in \in Values, NEW row \in LinkRows
    PROVE  Over(in, row) \in LinkRows
BY DEF Over, Coalesce, Values, LinkRows

LEMMA GetStarts ==
    ASSUME PanelType, NEW p \in Tabs, NEW s \in Systems, SisfiGet(p, s)
    PROVE  \E j : Starts(p, "sisfi_update", j, NoPage)
<1>1. PICK n \in Names \cup {Null}, a \in BOOLEAN \cup {Null} :
        Proceed(p, "sisfi_update",
            [NoCall EXCEPT !.system = s,
                !.in = [NoValues EXCEPT !.name = n, !.active = a],
                !.edits = {f \in {"name", "active"} : IF f = "name" THEN n # Null ELSE a # Null},
                !.row = [name |-> Coalesce(n, link[s].name),
                         active |-> Coalesce(a, link[s].active)]])
    BY DEF SisfiGet
<1>2. PICK in, E, row :
        /\ in = [NoValues EXCEPT !.name = n, !.active = a]
        /\ E = {f \in {"name", "active"} : IF f = "name" THEN n # Null ELSE a # Null}
        /\ row = [name |-> Coalesce(n, link[s].name),
                  active |-> Coalesce(a, link[s].active)]
    OBVIOUS
<1>3. in \in Values /\ in.name = n /\ in.active = a
    BY <1>2 DEF Values, NoValues
<1>4. E \subseteq Fields /\ E = {f \in {"name", "active"} : in[f] # Null}
    BY <1>2, <1>3 DEF Fields
<1>5. row = Over(in, link[s])
    BY <1>2, <1>3 DEF Over
<1>6. link[s] \in LinkRows
    BY DEF SisfiGet, PanelType, RowsType
<1>7. row \in LinkRows
    BY <1>3, <1>5, <1>6, OverType DEF PanelType
<1>8. PICK j : j = [NoCall EXCEPT !.system = s, !.in = in, !.edits = E, !.row = row]
    OBVIOUS
<1>9. j \in Call /\ j.system = s /\ j.in = in /\ j.edits = E /\ j.row = row
    <2>1. E \in SUBSET Fields
        BY <1>4
    <2> QED BY <1>3, <1>7, <1>8, <2>1 DEF Call, NoCall
<1>10. TabFits("sisfi_update", j, NoPage)
    BY <1>4, <1>7, <1>9 DEF TabFits
<1>11. Turns(p, "sisfi_update", j, NoPage)
    BY <1>1, <1>2, <1>8, <1>9, <1>10 DEF Turns, Proceed, SisfiGet, Leave, Stages
<1>12. Starts(p, "sisfi_update", j, NoPage)
    BY <1>5, <1>9, <1>11 DEF Starts, Keeps, SisfiGet, Leave, rows
<1> QED BY <1>12

LEMMA PutStarts ==
    ASSUME PanelType, NEW p \in Tabs, NEW s \in Systems, PutProgram(p, s)
    PROVE  \E st, j : Starts(p, st, j, NoPage)
<1>1. PICK in \in Values :
        \/ /\ s # "pushcard"
           /\ Proceed(p, "update_link", [NoCall EXCEPT !.system = s, !.in = in,
                                                      !.edits = Given(in) \cup {"limit"}])
        \/ /\ s = "pushcard"
           /\ in.name = Null /\ in.active = Null /\ in.ratio # Null
           /\ Proceed(p, "upsert_config", [NoCall EXCEPT !.system = s, !.in = in,
                                                        !.edits = {"ratio", "limit"}])
    BY DEF PutProgram
<1>2. PICK st, E :
        /\ Proceed(p, st, [NoCall EXCEPT !.system = s, !.in = in, !.edits = E])
        /\ \/ s # "pushcard" /\ st = "update_link" /\ E = Given(in) \cup {"limit"}
           \/ /\ s = "pushcard" /\ st = "upsert_config" /\ E = {"ratio", "limit"}
              /\ in.ratio # Null
    <2>1. CASE s # "pushcard"
        BY <1>1, <2>1, Zenon
    <2>2. CASE s = "pushcard"
        BY <1>1, <2>2, Zenon
    <2> QED BY <2>1, <2>2
<1>3. E \in SUBSET Fields
    BY <1>2 DEF Given, Fields
<1>4. PICK j : j = [NoCall EXCEPT !.system = s, !.in = in, !.edits = E]
    OBVIOUS
<1>5. j \in Call /\ j.system = s /\ j.in = in /\ j.edits = E
    BY <1>3, <1>4 DEF Call, NoCall
<1>6. st = "upsert_config" => in.ratio \in Ratios
    BY <1>2 DEF Values
<1>7. TabFits(st, j, NoPage)
    BY <1>2, <1>5, <1>6 DEF TabFits, SentByClient
<1>8. Turns(p, st, j, NoPage)
    BY <1>2, <1>4, <1>5, <1>7 DEF Turns, Proceed, PutProgram, Leave, Stages
<1>9. Starts(p, st, j, NoPage)
    BY <1>2, <1>5, <1>8 DEF Starts, Keeps, PutProgram, Leave, rows
<1> QED BY <1>9

LEMMA OpenStarts ==
    ASSUME PanelType, WholeOrHalf, NEW p \in Tabs, NEW s \in Systems, OpenPage(p, s)
    PROVE  \E g : Starts(p, "idle", call[p], g)
<1>1. PICK g : g = IF Listed(s)
                   THEN [system |-> s, link |-> link[s], config |-> config[s]]
                   ELSE NoPage
    OBVIOUS
<1>2. /\ g \in Page \cup {NoPage}
      /\ g # NoPage => /\ g.link = link[g.system] /\ g.config = config[g.system]
                       /\ g.link.active = TRUE /\ g.config # NoConfig
    <2>1. CASE ~Listed(s)
        BY <1>1, <2>1
    <2>2. CASE Listed(s)
        <3>1. g = [system |-> s, link |-> link[s], config |-> config[s]]
            BY <1>1, <2>2
        <3>2. link[s] \in LinkRows /\ config[s] \in ConfigRows
            BY <2>2 DEF Listed, PanelType, RowsType, WholeOrHalf
        <3> QED BY <2>2, <3>1, <3>2 DEF Listed, Page
    <2> QED BY <2>1, <2>2
<1>3. TabFits("idle", call[p], g)
    BY DEF TabFits
<1>4. stage[p] = "idle" /\ Turns(p, "idle", call[p], g)
    BY <1>1, <1>2, <1>3, TabType DEF Turns, OpenPage
<1>5. Starts(p, "idle", call[p], g)
    BY <1>2, <1>4 DEF Starts, Keeps, OpenPage, rows
<1> QED BY <1>5

LEMMA SaveGoes ==
    ASSUME PanelType, ThereInv, NEW p \in Tabs, Save(p)
    PROVE  \E st, j : Goes(p, st, j)
<1>1. PICK g, s : g = page[p] /\ s = g.system
    OBVIOUS
<1>2. /\ g \in Page /\ s \in Systems
      /\ g.link.name \in Names /\ g.link.active = TRUE
      /\ g.config.ratio \in Ratios /\ g.config.limit \in Limits \cup {Null}
      /\ g # NoPage
    <2>1. g \in Page
        BY <1>1, TabType DEF Save
    <2>2. g.link \in LinkRows /\ g.config \in ConfigRows /\ g.system \in Systems
        BY <2>1 DEF Page
    <2>3. g.link.active = TRUE /\ g # NoPage
        BY <1>1 DEF Save, ThereInv, IsThere
    <2> QED BY <1>1, <2>1, <2>2, <2>3 DEF LinkRows, ConfigRows
<1>3. PICK f, v, st :
        /\ Proceed(p, st, [NoCall EXCEPT !.system = s, !.edits = {f},
                                  !.in = [Shown(p) EXCEPT ![f] = v]])
        /\ st = IF s = "pushcard" THEN "upsert_config" ELSE "update_link"
        /\ \/ f = "ratio" /\ v \in Ratios
           \/ f = "limit" /\ v \in Limits \cup {Null}
           \/ f = "name" /\ v \in Names /\ s # "pushcard"
           \/ f = "active" /\ v = FALSE /\ s # "pushcard"
    <2> DEFINE to == IF s = "pushcard" THEN "upsert_config" ELSE "update_link"
               Send(f, v) == Proceed(p, to, [NoCall EXCEPT !.system = s, !.edits = {f},
                                                    !.in = [Shown(p) EXCEPT ![f] = v]])
    <2>1. (~g.link.active) = FALSE
        BY <1>2
    <2>2. \/ \E r \in Ratios : Send("ratio", r)
          \/ \E m \in Limits \cup {Null} : Send("limit", m)
          \/ s # "pushcard" /\ \E n \in Names : Send("name", n)
          \/ s # "pushcard" /\ Send("active", FALSE)
        BY <1>1, <2>1, Zenon DEF Save
    <2> HIDE DEF Send
    <2>3. \E f, v : /\ Send(f, v)
                    /\ \/ f = "ratio" /\ v \in Ratios
                       \/ f = "limit" /\ v \in Limits \cup {Null}
                       \/ f = "name" /\ v \in Names /\ s # "pushcard"
                       \/ f = "active" /\ v = FALSE /\ s # "pushcard"
        BY <2>2
    <2> QED BY <2>3 DEF Send
<1>4. PICK shown, in : shown = Shown(p) /\ in = [shown EXCEPT ![f] = v]
    OBVIOUS
<1>5. shown = [name |-> g.link.name, active |-> Null,
               ratio |-> g.config.ratio, limit |-> g.config.limit]
    BY <1>1, <1>4 DEF Shown
<1>6. /\ in \in Values
      /\ in.name = IF f = "name" THEN v ELSE g.link.name
      /\ in.active = IF f = "active" THEN v ELSE Null
      /\ in.ratio = IF f = "ratio" THEN v ELSE g.config.ratio
      /\ in.limit = IF f = "limit" THEN v ELSE g.config.limit
    <2>1. CASE f = "name"
        BY <1>2, <1>3, <1>4, <1>5, <2>1 DEF Values
    <2>2. CASE f = "active"
        <3>1. v \in BOOLEAN
            BY <1>3, <2>2
        <3> QED BY <1>2, <1>4, <1>5, <2>2, <3>1 DEF Values
    <2>3. CASE f = "ratio"
        BY <1>2, <1>3, <1>4, <1>5, <2>3 DEF Values
    <2>4. CASE f = "limit"
        BY <1>2, <1>3, <1>4, <1>5, <2>4 DEF Values
    <2> QED BY <1>3, <2>1, <2>2, <2>3, <2>4
<1>7. PICK j : j = [NoCall EXCEPT !.system = s, !.edits = {f}, !.in = in]
    OBVIOUS
<1>8. j \in Call /\ j.system = s /\ j.in = in /\ j.edits = {f}
    <2>1. {f} \in SUBSET Fields
        BY <1>3 DEF Fields
    <2> QED BY <1>2, <1>6, <1>7, <2>1 DEF Call, NoCall
<1>9. SentFrom(j, g)
    BY <1>1, <1>2, <1>6, <1>8 DEF SentFrom
<1>10. TabFits(st, j, g)
    <2>1. CASE s = "pushcard"
        BY <1>2, <1>3, <1>6, <1>8, <1>9, <2>1 DEF TabFits
    <2>2. CASE s # "pushcard"
        BY <1>2, <1>3, <1>6, <1>8, <1>9, <2>2 DEF TabFits, SentByPage
    <2> QED BY <2>1, <2>2
<1>11. Turns(p, st, j, page[p])
    BY <1>1, <1>2, <1>3, <1>4, <1>7, <1>8, <1>10, TabType DEF Turns, Proceed, Save, Stages
<1>12. Goes(p, st, j)
    BY <1>1, <1>2, <1>3, <1>8, <1>11
       DEF Goes, Keeps, Save, rows, programHistory
<1> QED BY <1>12

LEMMA InsertLinkSteps ==
    ASSUME PanelType, NEW p \in Tabs, InsertLink(p)
    PROVE  \E st, j : Goes(p, st, j) \/ Takes(p, st, j)
<1>1. PICK s, j0 : s = call[p].system /\ j0 = call[p]
    OBVIOUS
<1>2. /\ Keeps /\ UNCHANGED <<page, outdated>>
      /\ stage[p] = "insert_link" /\ ~Held(s)
    BY <1>1 DEF InsertLink, Keeps, rows, programHistory
<1>3. CASE Answer(p)
    BY <1>2, <1>3, EndsGoes
<1>4. CASE Free(s) /\ Proceed(p, "insert_config", [call[p] EXCEPT !.row = NewRow(p)])
    <2>1. /\ j0 \in Call /\ TabFits("insert_link", j0, page[p]) /\ s \in Systems
        BY <1>1, <1>2, TabType DEF TabFits
    <2>2. PICK row : row = NewRow(p)
        OBVIOUS
    <2>3. row = [name |-> j0.in.name, active |-> TRUE] /\ row \in LinkRows
        BY <1>1, <2>1, <2>2 DEF NewRow, TabFits, LinkRows
    <2>4. PICK j : j = [j0 EXCEPT !.row = row]
        OBVIOUS
    <2>5. /\ j \in Call /\ j.system = j0.system /\ j.in = j0.in
          /\ j.edits = j0.edits /\ j.row = row
        BY <2>1, <2>3, <2>4 DEF Call
    <2>6. TabFits("insert_config", j, page[p])
        BY <2>1, <2>3, <2>5 DEF TabFits
    <2>7. Turns(p, "insert_config", j, page[p])
        BY <1>1, <1>2, <1>4, <2>2, <2>4, <2>5, <2>6, TabType DEF Turns, Proceed, Stages
    <2>8. Takes(p, "insert_config", j)
        BY <1>1, <1>2, <1>4, <2>5, <2>7 DEF Takes, Free
    <2> QED BY <2>8
<1> QED BY <1>1, <1>3, <1>4 DEF InsertLink

LEMMA UpdateLinkTakes ==
    ASSUME PanelType, ThereInv, NEW p \in Tabs, UpdateLink(p)
    PROVE  \E j : Takes(p, "update_config", j)
<1>1. PICK s, j0 : s = call[p].system /\ j0 = call[p]
    OBVIOUS
<1>2. /\ Keeps /\ UNCHANGED <<page, outdated>>
      /\ stage[p] = "update_link" /\ ~Held(s)
    BY <1>1 DEF UpdateLink, Keeps, rows, programHistory
<1>3. /\ j0 \in Call /\ j0.in \in Values /\ TabFits("update_link", j0, page[p])
      /\ s \in Systems
    BY <1>1, <1>2, TabType DEF TabFits
<1>4. link[s] \in LinkRows /\ link[s] # NoLink
    BY <1>1, <1>2, <1>3 DEF ThereInv, IsThere, PanelType, RowsType
<1>5. PICK row : row = Over(j0.in, link[s])
    OBVIOUS
<1>6. row \in LinkRows
    BY <1>3, <1>4, <1>5, OverType DEF PanelType
<1>7. PICK j : j = [j0 EXCEPT !.row = row]
    OBVIOUS
<1>8. /\ j \in Call /\ j.system = j0.system /\ j.in = j0.in
      /\ j.edits = j0.edits /\ j.row = row
    BY <1>3, <1>6, <1>7 DEF Call
<1>9. TabFits("update_config", j, page[p])
    BY <1>3, <1>6, <1>8 DEF TabFits, SentByPage, SentByClient, SentFrom
<1>10. Proceed(p, "update_config", j)
    BY <1>1, <1>5, <1>7 DEF UpdateLink, Over
<1>11. Turns(p, "update_config", j, page[p])
    BY <1>2, <1>8, <1>9, <1>10, TabType DEF Turns, Proceed, Stages
<1>12. Takes(p, "update_config", j)
    BY <1>1, <1>2, <1>4, <1>5, <1>8, <1>11 DEF Takes
<1> QED BY <1>12

(* The requests that write. *)
LEMMA Excluded ==
    ASSUME NEW s, ~Held(s)
    PROVE  \A q \in Tabs : ~Holds(q, s)
BY DEF Held, Holds

LEMMA EndsTurns ==
    ASSUME PanelType, NEW p \in Tabs, Answer(p),
           page' = [page EXCEPT ![p] = NoPage] \/ (UNCHANGED page /\ page[p] = NoPage)
    PROVE  Turns(p, "idle", NoCall, NoPage)
<1>1. TabFits("idle", NoCall, NoPage)
    BY DEF TabFits
<1>2. page' = [page EXCEPT ![p] = NoPage]
    BY TabType
<1> QED BY <1>1, <1>2, PanelNoJob DEF Turns, Answer, Proceed

(* The config of a request, and the one it leaves of an old one. *)
LEMMA ConfigType ==
    ASSUME NEW in \in Values, in.ratio \in Ratios, NEW c,
           c = [ratio |-> in.ratio, limit |-> in.limit]
    PROVE  /\ c \in ConfigRows /\ c # NoConfig
           /\ c.ratio = in.ratio /\ c.limit = in.limit
<1>1. c \in ConfigRows /\ c.ratio = in.ratio /\ c.limit = in.limit
    BY DEF ConfigRows, Values
<1> QED BY <1>1, NullsApart

LEMMA ReplacedType ==
    ASSUME NEW in \in Values, NEW old \in ConfigRows, NEW c, c = Replaced(in, old)
    PROVE  /\ c \in ConfigRows /\ c # NoConfig
           /\ c.ratio = Coalesce(in.ratio, old.ratio) /\ c.limit = in.limit
<1>1. c.ratio = Coalesce(in.ratio, old.ratio) /\ c.limit = in.limit
    BY DEF Replaced
<1>2. c \in ConfigRows
    BY DEF Replaced, Coalesce, ConfigRows, Values
<1> QED BY <1>1, <1>2, NullsApart

(* A program that was not there was not inactive. *)
LEMMA NewIsNotReactivated ==
    ASSUME NEW p, NEW s, NEW l, link[s] = NoLink
    PROVE  Reactivates(p, s, l)
<1>1. link[s].active \notin BOOLEAN
    BY ProgramsAssumption DEF NoLink
<1>2. link[s].active = FALSE => link[s].active \in BOOLEAN
    OBVIOUS
<1> QED BY <1>1, <1>2 DEF Reactivates

LEMMA InsertConfigWrites ==
    ASSUME PanelInv, NEW p \in Tabs, InsertConfig(p)
    PROVE  \E s, l, c, st, j : /\ Writes(p, s, l, c, st, j) /\ WritesAsAsked(p, s, l, c)
                               /\ Reactivates(p, s, l)
<1>1. PICK s, j0, in, l : s = call[p].system /\ j0 = call[p] /\ in = j0.in /\ l = j0.row
    OBVIOUS
<1>2. /\ stage[p] = "insert_config" /\ TabFits("insert_config", j0, page[p])
      /\ s \in Systems /\ in \in Values
    BY <1>1, TabType DEF PanelInv, InsertConfig, TabFits
<1>3. /\ in.name \in Names /\ in.active = TRUE /\ in.ratio \in Ratios
      /\ l = [name |-> in.name, active |-> TRUE] /\ j0.edits = Fields
      /\ page[p] = NoPage
    BY <1>1, <1>2 DEF TabFits
<1>4. l \in LinkRows /\ l.name = in.name /\ l.active = TRUE
    BY <1>3 DEF LinkRows
<1>5. PICK c : c = [ratio |-> in.ratio, limit |-> in.limit]
    OBVIOUS
<1>6. /\ c \in ConfigRows /\ c # NoConfig
      /\ c.ratio = in.ratio /\ c.limit = in.limit
    BY <1>2, <1>3, <1>5, ConfigType DEF PanelInv, PanelType
<1>7. Holds(p, s) /\ Wrote(p, s)
    BY <1>1, <1>2 DEF Holds, InsertConfig
<1>8. link[s] = NoLink /\ \A q \in Tabs \ {p} : ~Holds(q, s)
    BY <1>2, <1>7 DEF PanelInv, HeldInv
<1>9. Turns(p, "idle", NoCall, NoPage)
    BY <1>3, EndsTurns DEF PanelInv, InsertConfig
<1>10. Writes(p, s, l, c, "idle", NoCall)
    BY <1>1, <1>2, <1>4, <1>5, <1>6, <1>7, <1>8, <1>9
       DEF Writes, InsertConfig, PanelInv, PanelType, RowsType
<1>11. WritesAsAsked(p, s, l, c)
    <2>1. /\ asked'[s].name = in.name /\ asked'[s].active = in.active
          /\ asked'[s].ratio = in.ratio /\ asked'[s].limit = in.limit
        BY <1>1, <1>2, <1>3, <1>7, AskedWritten DEF PanelInv, Fields
    <2> QED BY <1>3, <1>4, <1>6, <2>1 DEF WritesAsAsked, Agrees
<1>12. Reactivates(p, s, l)
    BY <1>8, NewIsNotReactivated DEF PanelInv, PanelType
<1> QED BY <1>10, <1>11, <1>12

LEMMA CreateWrites ==
    ASSUME PanelInv, NEW p \in Tabs, SisfiCreate(p)
    PROVE  \/ \E st, j : Goes(p, st, j)
           \/ \E s, l, c, st, j : /\ Writes(p, s, l, c, st, j) /\ WritesAsAsked(p, s, l, c)
                                  /\ Reactivates(p, s, l)
<1>1. PICK s, j0, in, l, c : /\ s = call[p].system /\ j0 = call[p] /\ in = j0.in
                             /\ l = NewRow(p) /\ c = config[s]
    OBVIOUS
<1>2. /\ stage[p] = "link" /\ TabFits("link", j0, page[p]) /\ ~Held(s)
      /\ s \in Systems /\ in \in Values /\ UNCHANGED <<config, page>>
    BY <1>1, TabType DEF PanelInv, SisfiCreate, TabFits
<1>3. /\ in.name \in Names /\ in.active = TRUE /\ j0.edits = {"name", "active"}
      /\ page[p] = NoPage
    BY <1>1, <1>2 DEF TabFits
<1>4. l \in LinkRows /\ l.name = in.name /\ l.active = TRUE
    BY <1>1, <1>3 DEF NewRow, LinkRows
<1>5. CASE Answer(p) /\ UNCHANGED <<link, programHistory>>
    <2>1. Keeps /\ UNCHANGED <<page, outdated>>
        BY <1>2, <1>5 DEF Keeps, programHistory
    <2> QED BY <1>5, <2>1, EndsGoes DEF PanelInv
<1>6. CASE /\ Free(s) /\ link' = [link EXCEPT ![s] = l] /\ half' = half \cup {s}
           /\ Wrote(p, s)
           /\ IF s = "pushcard"
              THEN \E r \in Ratios :
                     Proceed(p, "upsert_config",
                          [NoCall EXCEPT !.system = s, !.edits = {"ratio", "limit"},
                                         !.in = [NoValues EXCEPT !.ratio = r]])
              ELSE Answer(p)
    <2>1. link[s] = NoLink /\ c = NoConfig
        BY <1>1, <1>2, <1>6 DEF Free, PanelInv, WholeOrHalf
    <2>2. /\ config' = [config EXCEPT ![s] = c]
          /\ \A q \in Tabs \ {p} : ~Holds(q, s)
          /\ half' \subseteq Systems /\ half \ {s} = half' \ {s} /\ s \in half'
        BY <1>1, <1>2, <1>6, Excluded DEF PanelInv, PanelType, RowsType
    <2>3. \E st, j : /\ Turns(p, st, j, NoPage)
                     /\ st = "idle" \/ (st = "upsert_config" /\ j.system = s)
        <3>1. CASE s # "pushcard"
            BY <1>3, <1>2, <1>6, <3>1, EndsTurns DEF PanelInv
        <3>2. CASE s = "pushcard"
            <4>1. PICK r \in Ratios :
                    Proceed(p, "upsert_config",
                          [NoCall EXCEPT !.system = s, !.edits = {"ratio", "limit"},
                                         !.in = [NoValues EXCEPT !.ratio = r]])
                BY <1>6, <3>2
            <4>2. PICK i : i = [NoValues EXCEPT !.ratio = r]
                OBVIOUS
            <4>3. i \in Values /\ i.ratio = r
                BY <4>2 DEF Values, NoValues
            <4>4. PICK j : j = [NoCall EXCEPT !.system = s, !.edits = {"ratio", "limit"},
                                              !.in = i]
                OBVIOUS
            <4>5. j \in Call /\ j.system = s /\ j.in = i /\ j.edits = {"ratio", "limit"}
                <5>1. {"ratio", "limit"} \in SUBSET Fields
                    BY DEF Fields
                <5> QED BY <1>2, <4>3, <4>4, <5>1 DEF Call, NoCall
            <4>6. TabFits("upsert_config", j, NoPage)
                BY <1>2, <3>2, <4>3, <4>5 DEF TabFits
            <4>7. page' = [page EXCEPT ![p] = NoPage]
                BY <1>2, <1>3, TabType DEF PanelInv
            <4>8. Turns(p, "upsert_config", j, NoPage)
                BY <4>1, <4>2, <4>4, <4>5, <4>6, <4>7 DEF Turns, Proceed, Stages
            <4> QED BY <4>5, <4>8
        <3> QED BY <3>1, <3>2
    <2>4. PICK st, j : /\ Turns(p, st, j, NoPage)
                       /\ st = "idle" \/ (st = "upsert_config" /\ j.system = s)
        BY <2>3
    <2>5. Writes(p, s, l, c, st, j)
        BY <1>1, <1>2, <1>4, <1>6, <2>1, <2>2, <2>4 DEF Writes
    <2>6. WritesAsAsked(p, s, l, c)
        <3>1. asked'[s].name = in.name /\ asked'[s].active = in.active
            BY <1>1, <1>2, <1>3, <1>6, AskedWritten DEF PanelInv, Fields
        <3> QED BY <1>3, <1>4, <2>1, <3>1 DEF WritesAsAsked, Agrees
    <2>7. Reactivates(p, s, l)
        BY <2>1, NewIsNotReactivated DEF PanelInv, PanelType
    <2> QED BY <2>5, <2>6, <2>7
<1> QED BY <1>1, <1>5, <1>6 DEF SisfiCreate

LEMMA UpsertWrites ==
    ASSUME PanelInv, NEW p \in Tabs, UpsertConfig(p)
    PROVE  \E s, l, c, st, j : /\ Writes(p, s, l, c, st, j) /\ WritesAsAsked(p, s, l, c)
                               /\ Reactivates(p, s, l)
<1>1. PICK s, j0, in, l, g : /\ s = call[p].system /\ j0 = call[p] /\ in = j0.in
                             /\ l = link[s] /\ g = page[p]
    OBVIOUS
<1>2. /\ stage[p] = "upsert_config" /\ TabFits("upsert_config", j0, g)
      /\ s \in Systems /\ in \in Values /\ UNCHANGED link
    BY <1>1, TabType DEF PanelInv, UpsertConfig, TabFits
<1>3. /\ s = "pushcard" /\ in.ratio \in Ratios /\ j0.edits \subseteq {"ratio", "limit"}
      /\ SentFrom(j0, g) \/ j0.edits = {"ratio", "limit"}
    BY <1>1, <1>2 DEF TabFits
<1>4. l # NoLink /\ l \in LinkRows
    BY <1>1, <1>2 DEF PanelInv, ThereInv, IsThere, PanelType, RowsType
<1>5. PICK c : c = [ratio |-> in.ratio, limit |-> in.limit]
    OBVIOUS
<1>6. /\ c \in ConfigRows /\ c # NoConfig
      /\ c.ratio = in.ratio /\ c.limit = in.limit
    BY <1>2, <1>3, <1>5, ConfigType DEF PanelInv, PanelType
<1>7. \A q \in Tabs \ {p} : ~Holds(q, s)
    BY <1>3, TabType DEF PanelInv, Holds, TabFits
<1>8. /\ Wrote(p, s) /\ config' = [config EXCEPT ![s] = c] /\ half' = half \ {s}
      /\ link' = [link EXCEPT ![s] = l]
    BY <1>1, <1>2, <1>5 DEF UpsertConfig, PanelInv, PanelType, RowsType
<1>9. Turns(p, "idle", NoCall, NoPage)
    BY EndsTurns DEF PanelInv, UpsertConfig
<1>10. Writes(p, s, l, c, "idle", NoCall)
    BY <1>1, <1>2, <1>4, <1>6, <1>7, <1>8, <1>9 DEF Writes, PanelInv, PanelType, RowsType
<1>11. WritesAsAsked(p, s, l, c)
    <2> SUFFICES ASSUME s \notin overlapped, p \notin outdated PROVE Agrees(l, c, asked'[s])
        BY DEF WritesAsAsked
    <2>1. Agrees(l, config[s], asked[s])
        BY <1>1, <1>2 DEF PanelInv, AgreeInv
    <2>2. \A f \in Fields :
            asked'[s][f] = IF f \in j0.edits THEN in[f] ELSE asked[s][f]
        BY <1>1, <1>2, <1>8, AskedWritten DEF PanelInv
    <2>3. asked'[s].name = asked[s].name /\ asked'[s].active = asked[s].active
        BY <1>3, <2>2 DEF Fields
    <2>4. asked'[s].ratio = in.ratio /\ asked'[s].limit = in.limit
        <3>1. CASE j0.edits = {"ratio", "limit"}
            BY <2>2, <3>1 DEF Fields
        <3>2. CASE SentFrom(j0, g)
            <4>1. g # NoPage /\ g.system = s /\ g.config = config[s]
                BY <1>1, <3>2 DEF SentFrom, PanelInv, FreshInv, Fresh
            <4>2. config[s] # NoConfig
                BY <1>1, <4>1 DEF PanelInv, ThereInv, IsThere
            <4>3. config[s].ratio = asked[s].ratio /\ config[s].limit = asked[s].limit
                BY <2>1, <4>2 DEF Agrees
            <4>4. /\ "ratio" \notin j0.edits => in.ratio = config[s].ratio
                  /\ "limit" \notin j0.edits => in.limit = config[s].limit
                BY <1>1, <3>2, <4>1 DEF SentFrom
            <4> QED BY <2>2, <4>3, <4>4 DEF Fields
        <3> QED BY <1>3, <3>1, <3>2
    <2> QED BY <1>6, <2>1, <2>3, <2>4 DEF Agrees
<1>12. Reactivates(p, s, l)
    <2>1. l.active = FALSE => l.active # TRUE
        OBVIOUS
    <2> QED BY <1>1, <2>1 DEF Reactivates
<1> QED BY <1>10, <1>11, <1>12

LEMMA UpdateWrites ==
    ASSUME PanelInv, NEW p \in Tabs, UpdateConfig(p)
    PROVE  \E s, l, c, st, j : /\ Writes(p, s, l, c, st, j) /\ WritesAsAsked(p, s, l, c)
                               /\ Reactivates(p, s, l)
<1>1. PICK s, j0, in, l, g : /\ s = call[p].system /\ j0 = call[p] /\ in = j0.in
                             /\ l = j0.row /\ g = page[p]
    OBVIOUS
<1>2. /\ stage[p] = "update_config" /\ TabFits("update_config", j0, g)
      /\ s \in Systems /\ in \in Values
    BY <1>1, TabType DEF PanelInv, UpdateConfig, TabFits
<1>3. l \in LinkRows /\ (SentByPage(j0, g) \/ SentByClient(j0, g))
    BY <1>1, <1>2 DEF TabFits
<1>4. Holds(p, s) /\ link[s] \in LinkRows
    BY <1>1, <1>2 DEF Holds, PanelInv, ThereInv, IsThere, PanelType, RowsType
<1>5. l = Over(in, link[s]) /\ \A q \in Tabs \ {p} : ~Holds(q, s)
    BY <1>1, <1>2, <1>4 DEF PanelInv, HeldInv
<1>6. l.name = Coalesce(in.name, link[s].name) /\ l.active = Coalesce(in.active, link[s].active)
    BY <1>5 DEF Over
<1>7. PICK c : c = IF config[s] = NoConfig THEN config[s] ELSE Replaced(in, config[s])
    OBVIOUS
<1>8. /\ config[s] = NoConfig => c = NoConfig
      /\ config[s] # NoConfig =>
           /\ c \in ConfigRows /\ c # NoConfig
           /\ c.ratio = Coalesce(in.ratio, config[s].ratio) /\ c.limit = in.limit
    BY <1>2, <1>7, ReplacedType DEF PanelInv, PanelType, RowsType
<1>9. /\ Wrote(p, s) /\ link' = [link EXCEPT ![s] = l]
      /\ config' = [config EXCEPT ![s] = c] /\ UNCHANGED half
    BY <1>1, <1>7 DEF UpdateConfig
<1>10. c # NoConfig \/ s \in half
    BY <1>1, <1>2, <1>8 DEF PanelInv, WholeOrHalf, ThereInv, IsThere
<1>11. Turns(p, "idle", NoCall, NoPage)
    BY EndsTurns DEF PanelInv, UpdateConfig
<1>12. Writes(p, s, l, c, "idle", NoCall)
    BY <1>1, <1>2, <1>3, <1>5, <1>8, <1>9, <1>10, <1>11
       DEF Writes, PanelInv, PanelType, RowsType
<1>13. \A f \in Fields : asked'[s][f] = IF f \in j0.edits THEN in[f] ELSE asked[s][f]
    BY <1>1, <1>2, <1>9, AskedWritten DEF PanelInv
<1>14. s \notin overlapped =>
         /\ link[s].name = asked[s].name /\ link[s].active = asked[s].active
         /\ config[s] # NoConfig =>
              config[s].ratio = asked[s].ratio /\ config[s].limit = asked[s].limit
    BY <1>1, <1>2, <1>4, NullsApart DEF PanelInv, PanelType, AgreeInv, Agrees
<1>15. CASE SentByPage(j0, g)
    <2>1. /\ in.name \in Names /\ in.ratio \in Ratios /\ SentFrom(j0, g)
          /\ in.active = IF "active" \in j0.edits THEN FALSE ELSE Null
        BY <1>15, <1>1 DEF SentByPage
    <2>2. /\ l.name = in.name
          /\ l.active = IF "active" \in j0.edits THEN FALSE ELSE link[s].active
        BY <1>6, <2>1, NullsApart DEF Coalesce, PanelInv, PanelType
    <2>3. g # NoPage /\ g.system = s
        BY <1>1, <2>1 DEF SentFrom
    <2>4. config[s] # NoConfig
        BY <1>1, <2>3 DEF PanelInv, ThereInv, IsThere
    <2>5. c.ratio = in.ratio /\ c.limit = in.limit
        BY <1>8, <2>1, <2>4, NullsApart DEF Coalesce, PanelInv, PanelType
    <2>6. WritesAsAsked(p, s, l, c)
        <3> SUFFICES ASSUME s \notin overlapped, p \notin outdated
                     PROVE  Agrees(l, c, asked'[s])
            BY DEF WritesAsAsked
        <3>1. g.config = config[s] /\ g.link = link[s]
            BY <1>1, <2>3 DEF PanelInv, FreshInv, Fresh
        <3>2. /\ "name" \notin j0.edits => in.name = link[s].name
              /\ "ratio" \notin j0.edits => in.ratio = config[s].ratio
              /\ "limit" \notin j0.edits => in.limit = config[s].limit
            BY <1>1, <2>1, <3>1 DEF SentFrom
        <3>3. asked'[s].active = l.active
            BY <1>13, <1>14, <2>1, <2>2 DEF Fields
        <3>4. /\ asked'[s].name = in.name
              /\ asked'[s].ratio = in.ratio /\ asked'[s].limit = in.limit
            BY <1>13, <1>14, <2>4, <3>2 DEF Fields
        <3> QED BY <2>2, <2>5, <3>3, <3>4 DEF Agrees
    <2>7. link[s].active = FALSE => l.active = FALSE
        BY <2>2
    <2>8. Reactivates(p, s, l)
        BY <2>7 DEF Reactivates
    <2> QED BY <1>12, <2>6, <2>8
<1>16. CASE SentByClient(j0, g)
    <2>1. \A f \in Fields : f \in j0.edits <=> in[f] # Null \/ f = "limit"
        BY <1>1, <1>16 DEF SentByClient, Given, Fields
    <2>2. WritesAsAsked(p, s, l, c)
        <3> SUFFICES ASSUME s \notin overlapped PROVE Agrees(l, c, asked'[s])
            BY DEF WritesAsAsked
        <3>1. l.name = asked'[s].name /\ l.active = asked'[s].active
            BY <1>6, <1>13, <1>14, <2>1 DEF Fields, Coalesce
        <3>2. c # NoConfig => c.ratio = asked'[s].ratio /\ c.limit = asked'[s].limit
            BY <1>8, <1>13, <1>14, <2>1 DEF Fields, Coalesce
        <3> QED BY <3>1, <3>2 DEF Agrees
    <2>3. stage'[p] = "idle"
        BY <1>11 DEF Turns, PanelInv, PanelType, TabsType
    <2>4. link[s].active = FALSE /\ l.active = TRUE => in.active = TRUE /\ "active" \in j0.edits
        BY <1>6, <2>1, NullsApart DEF Fields, Coalesce, PanelInv, PanelType
    <2>5. Reactivates(p, s, l)
        BY <1>1, <1>2, <2>3, <2>4 DEF Reactivates
    <2> QED BY <1>12, <2>2, <2>5
<1> QED BY <1>3, <1>15, <1>16

LEMMA SisfiWrites ==
    ASSUME PanelInv, NEW p \in Tabs, SisfiUpdate(p)
    PROVE  \E s, l, c, st, j : /\ Writes(p, s, l, c, st, j) /\ WritesAsAsked(p, s, l, c)
                               /\ Reactivates(p, s, l)
<1>1. PICK s, j0, in, l, c : /\ s = call[p].system /\ j0 = call[p] /\ in = j0.in
                             /\ l = j0.row /\ c = config[s]
    OBVIOUS
<1>2. /\ stage[p] = "sisfi_update" /\ TabFits("sisfi_update", j0, page[p]) /\ ~Held(s)
      /\ s \in Systems /\ in \in Values /\ UNCHANGED <<config, page, half>>
    BY <1>1, TabType DEF PanelInv, SisfiUpdate, TabFits
<1>3. /\ l \in LinkRows /\ page[p] = NoPage
      /\ j0.edits = {f \in {"name", "active"} : in[f] # Null}
    BY <1>1, <1>2 DEF TabFits
<1>4. link[s] # NoLink /\ link[s] \in LinkRows
    BY <1>1, <1>2 DEF PanelInv, ThereInv, IsThere, PanelType, RowsType
<1>5. /\ Wrote(p, s) /\ link' = [link EXCEPT ![s] = l]
      /\ config' = [config EXCEPT ![s] = c]
    BY <1>1, <1>2 DEF SisfiUpdate, PanelInv, PanelType, RowsType
<1>6. c \in ConfigRows \cup {NoConfig} /\ (c # NoConfig \/ s \in half)
    BY <1>1, <1>2, <1>4 DEF PanelInv, WholeOrHalf, PanelType, RowsType
<1>7. Turns(p, "idle", NoCall, NoPage)
    BY <1>2, <1>3, EndsTurns DEF PanelInv, SisfiUpdate
<1>8. Writes(p, s, l, c, "idle", NoCall)
    BY <1>1, <1>2, <1>3, <1>5, <1>6, <1>7, Excluded DEF Writes, PanelInv, PanelType, RowsType
<1>9. p \notin outdated =>
        /\ l.name = IF "name" \in j0.edits THEN in.name ELSE link[s].name
        /\ l.active = IF "active" \in j0.edits THEN in.active ELSE link[s].active
    <2>1. p \notin outdated => l = Over(in, link[s])
        BY <1>1, <1>2 DEF PanelInv, FreshInv, Fresh
    <2> QED BY <1>3, <2>1 DEF Over, Coalesce
<1>10. WritesAsAsked(p, s, l, c)
    <2> SUFFICES ASSUME s \notin overlapped, p \notin outdated PROVE Agrees(l, c, asked'[s])
        BY DEF WritesAsAsked
    <2>1. \A f \in Fields :
            asked'[s][f] = IF f \in j0.edits THEN in[f] ELSE asked[s][f]
        BY <1>1, <1>2, <1>5, AskedWritten DEF PanelInv
    <2>2. /\ link[s].name = asked[s].name /\ link[s].active = asked[s].active
          /\ c # NoConfig => c.ratio = asked[s].ratio /\ c.limit = asked[s].limit
        BY <1>1, <1>2, <1>4 DEF PanelInv, AgreeInv, Agrees
    <2>3. asked'[s].ratio = asked[s].ratio /\ asked'[s].limit = asked[s].limit
        BY <1>3, <2>1 DEF Fields
    <2>4. l.name = asked'[s].name /\ l.active = asked'[s].active
        BY <1>9, <2>1, <2>2 DEF Fields
    <2> QED BY <2>2, <2>3, <2>4 DEF Agrees
<1>11. Reactivates(p, s, l)
    <2>1. stage'[p] = "idle"
        BY <1>7 DEF Turns, PanelInv, PanelType, TabsType
    <2>2. link[s].active = FALSE /\ l.active = TRUE /\ p \notin outdated =>
            in.active = TRUE /\ "active" \in j0.edits
        BY <1>9
    <2> QED BY <1>1, <1>2, <2>1, <2>2 DEF Reactivates
<1> QED BY <1>8, <1>10, <1>11

LEMMA PanelSteps ==
    ASSUME PanelInv, [ProgramsNext]_programVars
    PROVE  PanelStep
<1>t. PanelType /\ ThereInv /\ WholeOrHalf
    BY DEF PanelInv
<1>1. ASSUME NEW p \in Tabs, BeginRequest(p) PROVE PanelStep
    <2>1. CASE Save(p)
        BY <1>t, <2>1, SaveGoes DEF PanelStep
    <2>2. ASSUME NEW s \in Systems,
                 \/ CreateProgram(p, s) \/ LinkSystem(p, s)
                 \/ OpenPage(p, s) \/ SisfiGet(p, s) \/ PutProgram(p, s)
          PROVE  \E st, j, g : Starts(p, st, j, g)
        BY <1>t, <2>2, CreateStarts, LinkStarts, OpenStarts, GetStarts, PutStarts
    <2> QED BY <1>1, <2>1, <2>2 DEF BeginRequest, PanelStep
<1>2. ASSUME NEW p \in Tabs, Step(p) PROVE PanelStep
    <2>1. CASE InsertLink(p)
        BY <1>t, <2>1, InsertLinkSteps DEF PanelStep
    <2>2. CASE InsertConfig(p)
        BY <2>2, InsertConfigWrites DEF PanelStep
    <2>3. CASE SisfiCreate(p)
        BY <2>3, CreateWrites DEF PanelStep
    <2>4. CASE UpsertConfig(p)
        BY <2>4, UpsertWrites DEF PanelStep
    <2>5. CASE UpdateLink(p)
        BY <1>t, <2>5, UpdateLinkTakes DEF PanelStep
    <2>6. CASE UpdateConfig(p)
        BY <2>6, UpdateWrites DEF PanelStep
    <2>7. CASE SisfiUpdate(p)
        BY <2>7, SisfiWrites DEF PanelStep
    <2> QED BY <1>2, <2>1, <2>2, <2>3, <2>4, <2>5, <2>6, <2>7 DEF Step
<1>3. ASSUME NEW p \in Tabs, BreakOff(p) PROVE PanelStep
    <2>1. Answer(p) /\ Keeps /\ UNCHANGED <<page, outdated>>
        BY <1>3 DEF BreakOff, Keeps, rows, programHistory
    <2> QED BY <1>t, <2>1, EndsGoes DEF PanelStep
<1>4. ASSUME UNCHANGED programVars PROVE PanelStep
    BY <1>4 DEF PanelStep, programVars, rows, programHistory
<1> QED BY <1>1, <1>2, <1>3, <1>4 DEF ProgramsNext, AllAnswered

LEMMA PanelInit == ASSUME ProgramsInit PROVE PanelInv
<1>1. PanelType
    <2>1. RowsType
        BY DEF ProgramsInit, RowsType, NoValues, Values
    <2>2. TabsType
        BY PanelNoJob DEF ProgramsInit, TabsType
    <2>3. TabsFit
        BY DEF ProgramsInit, TabsFit, TabFits
    <2> QED BY <2>1, <2>2, <2>3 DEF PanelType
<1>2. WholeOrHalf /\ ThereInv /\ HeldInv /\ FreshInv /\ AgreeInv
    BY DEF ProgramsInit, WholeOrHalf, ThereInv, IsThere, HeldInv, Holds, FreshInv, Fresh,
       AgreeInv, Agrees
<1> QED BY <1>1, <1>2 DEF PanelInv

LEMMA PanelKept == ASSUME PanelInv, [ProgramsNext]_programVars PROVE PanelInv'
BY PanelSteps, PanelTypeKept, WholeKept, ThereKept, HeldKept, FreshKept, AgreeKept DEF PanelInv

LEMMA PanelInvariance == ProgramsSpec => []PanelInv
BY PanelInit, PanelKept, PTL DEF ProgramsSpec

(* Every variable of Programs keeps to its type. *)
THEOREM PanelTypeCorrect == ProgramsSpec => []ProgramsTypeOK
<1>1. PanelInv => ProgramsTypeOK
    BY DEF PanelInv, PanelType, RowsType, TabsType, ProgramsTypeOK
<1> QED BY <1>1, PanelInvariance, PTL

(***************************************************************************)
(* What the menus offer is found by the commands: CreateProgram writes the *)
(* two rows in one transaction, an update never takes a config away, and   *)
(* only a link that POST /customer-sisfi made is without.                  *)
(***************************************************************************)
THEOREM OfferedCorrect == ProgramsSpec => []OfferedProgramsAnswer
<1>1. PanelInv => OfferedProgramsAnswer
    <2> SUFFICES ASSUME PanelInv PROVE OfferedProgramsAnswer
        OBVIOUS
    <2>1. ASSUME NEW s \in Systems, link[s].active = TRUE PROVE link[s] # NoLink
        <3>1. NoLink.active # TRUE
            BY NullsApart DEF PanelInv, PanelType, NoLink
        <3> QED BY <2>1, <3>1
    <2> QED BY <2>1 DEF PanelInv, WholeOrHalf, OfferedProgramsAnswer, Listed
<1> QED BY <1>1, PanelInvariance, PTL

(***************************************************************************)
(* Although every update of a program writes all its columns, a field is   *)
(* what an admin last asked for, unless the program was written from what  *)
(* had been changed since it was read.                                     *)
(***************************************************************************)
THEOREM ProgramFieldsCorrect == ProgramsSpec => []FieldsAreAsAsked
<1>1. PanelInv => FieldsAreAsAsked
    BY DEF PanelInv, AgreeInv, Agrees, FieldsAreAsAsked
<1> QED BY <1>1, PanelInvariance, PTL

(***************************************************************************)
(* A program that was switched off is switched on by a request that names  *)
(* active and asks for it, from the API or PUT /customer-sisfi/:id, or by  *)
(* the latter writing back a row that changed since it was read; never by  *)
(* a page saved for another field.                                         *)
(***************************************************************************)
THEOREM ReactivationCorrect == ProgramsSpec => ReactivatedOnlyWhenAsked
<1>1. ASSUME PanelInv, [ProgramsNext]_programVars, NEW t \in Systems,
             link[t].active = FALSE, link'[t].active = TRUE
      PROVE  \E p \in Tabs :
                /\ call[p].system = t /\ stage'[p] = "idle"
                /\ \/ /\ stage[p] \in {"update_config", "sisfi_update"}
                      /\ "active" \in call[p].edits /\ call[p].in.active = TRUE
                   \/ stage[p] = "sisfi_update" /\ p \in outdated
    <2>1. link'[t] # link[t]
        BY <1>1
    <2>2. PanelStep
        BY <1>1, PanelSteps
    <2>3. PICK p \in Tabs : \E s, l, c, st, j : /\ Writes(p, s, l, c, st, j)
                                                /\ WritesAsAsked(p, s, l, c)
                                                /\ Reactivates(p, s, l)
        BY <2>1, <2>2 DEF PanelStep, Starts, Goes, Takes, Keeps
    <2>4. PICK s, l, c, st, j : Writes(p, s, l, c, st, j) /\ Reactivates(p, s, l)
        BY <2>3
    <2>5. s = t /\ link'[t] = l /\ s = call[p].system
        BY <1>1, <2>1, <2>4 DEF Writes, PanelInv, PanelType, RowsType
    <2> QED BY <1>1, <2>4, <2>5 DEF Reactivates
<1>2. PanelInv /\ [ProgramsNext]_programVars =>
        [\A s \in Systems :
            link[s].active = FALSE /\ link'[s].active = TRUE =>
                \E p \in Tabs :
                    /\ call[p].system = s /\ stage'[p] = "idle"
                    /\ \/ /\ stage[p] \in {"update_config", "sisfi_update"}
                          /\ "active" \in call[p].edits /\ call[p].in.active = TRUE
                       \/ stage[p] = "sisfi_update" /\ p \in outdated]_programVars
    BY <1>1
<1> QED BY <1>2, PanelInvariance, PTL DEF ProgramsSpec, ReactivatedOnlyWhenAsked
=============================================================================
