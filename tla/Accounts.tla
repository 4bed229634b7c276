------------------------------ MODULE Accounts -------------------------------
(***************************************************************************)
(* Businesses and the admins who sign in to them: internal/admin without   *)
(* the password reset.  A request takes one step per statement, none of    *)
(* them in a transaction with the next; a statement that fails does        *)
(* nothing, and a UNIQUE column refuses the value another row has.         *)
(* Verifying a Google token is external: a request comes with an account   *)
(* whose token was good.                                                   *)
(***************************************************************************)
EXTENDS Naturals, FiniteSets

CONSTANTS
    AdminIds, CustomerIds,
    Emails,          \* addresses admins register with
    Slugs,           \* slugs randomChars may come up with for a name
    Subs,            \* Google accounts (claim "sub")
    EmailOf,         \* the address of a Google account
    Procs,           \* requests being handled at the same time
    Nil,
    SlugAttempts,
    MaxFailures      \* bound: failing statements in a behaviour

ASSUME AccountsAssumption ==
    /\ EmailOf \in [Subs -> Emails]
    /\ Nil \notin AdminIds \cup CustomerIds \cup Emails \cup Slugs \cup Subs
    /\ SlugAttempts \in Nat \ {0}
    /\ MaxFailures \in Nat

VARIABLES
    customers,    \* table customers: the slug of each
    admins,       \* table admins
    pc,           \* where each request is
    job,          \* what each request holds
    failures,     \* statements that have failed
    givenUp,     \* history: customers whose request ended before their admin
    crossed       \* history: admins whose link was changed while a login that
                  \* had found them was under way

vars == <<customers, admins, pc, job, failures, givenUp, crossed>>

history == <<givenUp, crossed>>

-----------------------------------------------------------------------------
(* Values *)

NoAdmin == [customer |-> Nil, email |-> Nil, sub |-> Nil, domain |-> Nil]

(* Every account is taken to have a hosted domain of its own. *)
Admin == [customer : CustomerIds, email : Emails, sub : Subs \cup {Nil},
          domain : Subs \cup {Nil}]

NoJob == [email |-> Nil, sub |-> Nil, slug |-> Nil, tries |-> 0,
          customer |-> Nil, admin |-> Nil]

Job == [email : Emails \cup {Nil}, sub : Subs \cup {Nil}, slug : Slugs \cup {Nil},
        tries : 0..(SlugAttempts - 1), customer : CustomerIds \cup {Nil},
        admin : AdminIds \cup {Nil}]

PCs == {"idle", "slugExists", "createCustomer", "create", "getByGoogleSub",
        "getByEmail", "loginLink", "refreshProfile", "getByID", "checkLink", "link"}

GotoWith(p, step, j) == /\ pc' = [pc EXCEPT ![p] = step]
                        /\ job' = [job EXCEPT ![p] = j]

Goto(p, step) == GotoWith(p, step, job[p])

Begin(p, step, j) == pc[p] = "idle" /\ GotoWith(p, step, j)

Finish(p) == GotoWith(p, "idle", NoJob)

StatementFails == /\ failures < MaxFailures
                  /\ failures' = failures + 1

Fail(p) == StatementFails /\ Finish(p)

Businesses == {c \in CustomerIds : customers[c] # Nil}

Registered == {a \in AdminIds : admins[a] # NoAdmin}

WithSub(s) == {a \in Registered : admins[a].sub = s}

WithEmail(e) == {a \in Registered : admins[a].email = e}

-----------------------------------------------------------------------------
(* Onboard, GoogleOnboard, Register *)

Drawn(p, j) == \E s \in Slugs : GotoWith(p, "slugExists", [j EXCEPT !.slug = s])

Onboard(p) ==
    /\ pc[p] = "idle"
    /\ \E e \in Emails : Drawn(p, [NoJob EXCEPT !.email = e])
    /\ UNCHANGED <<customers, admins, failures, history>>

GoogleOnboard(p) ==
    /\ pc[p] = "idle"
    /\ \E s \in Subs : Drawn(p, [NoJob EXCEPT !.email = EmailOf[s], !.sub = s])
    /\ UNCHANGED <<customers, admins, failures, history>>

(* Under a business that exists already. *)
Register(p) ==
    /\ \E e \in Emails, c \in Businesses :
         Begin(p, "create", [NoJob EXCEPT !.email = e, !.customer = c])
    /\ UNCHANGED <<customers, admins, failures, history>>

Taken(slug) == \E c \in CustomerIds : customers[c] = slug

MayDrawAgain(tries) == tries < SlugAttempts

(* generateUniqueSlug: another draw, unless it was the last. *)
SlugExists(p) ==
    LET tries == job[p].tries + 1
    IN /\ pc[p] = "slugExists"
       /\ \/ /\ ~Taken(job[p].slug)
             /\ GotoWith(p, "createCustomer", [job[p] EXCEPT !.tries = 0])
             /\ UNCHANGED failures
          \/ /\ Taken(job[p].slug) /\ MayDrawAgain(tries)
             /\ Drawn(p, [job[p] EXCEPT !.tries = tries])
             /\ UNCHANGED failures
          \/ /\ Taken(job[p].slug) /\ ~MayDrawAgain(tries)
             /\ Finish(p)
             /\ UNCHANGED failures
          \/ Fail(p)
       /\ UNCHANGED <<customers, admins, history>>

CreateCustomer(p) ==
    /\ pc[p] = "createCustomer"
    /\ \/ \E c \in CustomerIds :
            /\ customers[c] = Nil /\ ~Taken(job[p].slug)
            /\ customers' = [customers EXCEPT ![c] = job[p].slug]
            /\ GotoWith(p, "create", [job[p] EXCEPT !.slug = Nil, !.customer = c])
            /\ UNCHANGED failures
       \/ /\ Taken(job[p].slug) \/ Businesses = CustomerIds   \* bound: no id left
          /\ Finish(p)
          /\ UNCHANGED <<customers, failures>>
       \/ Fail(p) /\ UNCHANGED customers
    /\ UNCHANGED <<admins, history>>

(* Faulty variant: a business there is, whoever created it. *)
SomeBusiness(j) == CHOOSE c \in Businesses : TRUE

CustomerOf(j) == j.customer

NewAdmin(j) == [customer |-> CustomerOf(j), email |-> j.email, sub |-> j.sub,
                domain |-> j.sub]

(* Create: the address, and the account if there is one, must be new. *)
Create(p) ==
    LET new == NewAdmin(job[p])
        refused == \/ WithEmail(new.email) # {}
                   \/ new.sub # Nil /\ WithSub(new.sub) # {}
        giveUp == givenUp' = givenUp \cup {new.customer}
    IN /\ pc[p] = "create"
       /\ \/ \E a \in AdminIds \ Registered :
               /\ ~refused
               /\ admins' = [admins EXCEPT ![a] = new]
               /\ Finish(p)
               /\ UNCHANGED <<failures, givenUp>>
          \/ /\ refused \/ Registered = AdminIds   \* bound: no id left
             /\ Finish(p)
             /\ giveUp
             /\ UNCHANGED <<admins, failures>>
          \/ Fail(p) /\ giveUp /\ UNCHANGED admins
       /\ UNCHANGED <<customers, crossed>>

-----------------------------------------------------------------------------
(* GoogleLogin *)

GoogleLogin(p) ==
    /\ \E s \in Subs : Begin(p, "getByGoogleSub", [NoJob EXCEPT !.sub = s])
    /\ UNCHANGED <<customers, admins, failures, history>>

(* Only "not found" goes on to the address: a failing lookup ends the login. *)
GetByGoogleSub(p) ==
    /\ pc[p] = "getByGoogleSub"
    /\ \/ \E a \in WithSub(job[p].sub) :
            GotoWith(p, "refreshProfile", [job[p] EXCEPT !.admin = a])
            /\ UNCHANGED failures
       \/ WithSub(job[p].sub) = {} /\ Goto(p, "getByEmail") /\ UNCHANGED failures
       \/ Fail(p)
    /\ UNCHANGED <<customers, admins, history>>

GetByEmail(p) ==
    /\ pc[p] = "getByEmail"
    /\ \/ \E a \in WithEmail(EmailOf[job[p].sub]) :
            GotoWith(p, "loginLink", [job[p] EXCEPT !.admin = a])
            /\ UNCHANGED failures
       \/ WithEmail(EmailOf[job[p].sub]) = {} /\ Finish(p) /\ UNCHANGED failures
       \/ Fail(p)
    /\ UNCHANGED <<customers, admins, history>>

(* Logins, other than p, that have found the admin linked or linked it, and *)
(* not yet answered.                                                        *)
LoginsOf(p, a) == {q \in Procs \ {p} : /\ pc[q] \in {"refreshProfile", "getByID"}
                                       /\ job[q].admin = a}

Cross(p, a) == crossed' = IF LoginsOf(p, a) # {} THEN crossed \cup {a} ELSE crossed

(* Faulty variant: google_sub is not UNIQUE. *)
FreeForAll(s, a) == TRUE

FreeFor(s, a) == WithSub(s) \subseteq {a}

(* repository.LinkGoogle, by a login that goes on to step "next" or by an  *)
(* admin who asks for it.  It replaces the account the admin had, and the  *)
(* account must be nobody else's.                                          *)
LinkGoogleRow(p, step, next) ==
    LET a == job[p].admin
        s == job[p].sub
    IN /\ pc[p] = step
       /\ \/ /\ FreeFor(s, a)
             /\ admins' = [admins EXCEPT ![a].sub = s, ![a].domain = s]
             /\ GotoWith(p, next, IF next = "idle" THEN NoJob ELSE job[p])
             /\ Cross(p, a)
             /\ UNCHANGED failures
          \/ /\ ~FreeFor(s, a)
             /\ Finish(p)
             /\ UNCHANGED <<admins, failures, crossed>>
          \/ Fail(p) /\ UNCHANGED <<admins, crossed>>
       /\ UNCHANGED <<customers, givenUp>>

LoginLink(p) == LinkGoogleRow(p, "loginLink", "getByID")

(* UpdateGoogleProfile: by id, whatever account is linked by now. *)
RefreshProfile(p) ==
    /\ pc[p] = "refreshProfile"
    /\ \/ /\ admins' = [admins EXCEPT ![job[p].admin].domain = job[p].sub]
          /\ Goto(p, "getByID")
          /\ UNCHANGED failures
       \/ Fail(p) /\ UNCHANGED admins
    /\ UNCHANGED <<customers, history>>

(* The admin is read again, and signed in. *)
GetByID(p) ==
    /\ pc[p] = "getByID"
    /\ \/ Finish(p) /\ UNCHANGED failures
       \/ Fail(p)
    /\ UNCHANGED <<customers, admins, history>>

-----------------------------------------------------------------------------
(* LinkGoogle and UnlinkGoogle, by an admin who is signed in *)

LinkGoogle(p) ==
    /\ \E a \in Registered, s \in Subs :
         Begin(p, "checkLink", [NoJob EXCEPT !.admin = a, !.sub = s])
    /\ UNCHANGED <<customers, admins, failures, history>>

(* A lookup that fails is taken for "nobody's". *)
CheckLink(p) ==
    /\ pc[p] = "checkLink"
    /\ \/ WithSub(job[p].sub) \subseteq {job[p].admin} /\ Goto(p, "link")
          /\ UNCHANGED failures
       \/ ~(WithSub(job[p].sub) \subseteq {job[p].admin}) /\ Finish(p)
          /\ UNCHANGED failures
       \/ StatementFails /\ Goto(p, "link")
    /\ UNCHANGED <<customers, admins, history>>

Link(p) == LinkGoogleRow(p, "link", "idle")

(* Faulty variant: the domain is taken for a datum of the user's. *)
UnlinkedWithDomain(row) == [row EXCEPT !.sub = Nil]

Unlinked(row) == [row EXCEPT !.sub = Nil, !.domain = Nil]

UnlinkGoogle(p) ==
    /\ pc[p] = "idle"
    /\ \E a \in Registered :
         /\ admins' = [admins EXCEPT ![a] = Unlinked(@)]
         /\ Cross(p, a)
    /\ UNCHANGED <<customers, pc, job, failures, givenUp>>

-----------------------------------------------------------------------------
Quiescent == /\ \A p \in Procs : pc[p] = "idle"
             /\ UNCHANGED vars

Init == /\ customers = [c \in CustomerIds |-> Nil]
        /\ admins = [a \in AdminIds |-> NoAdmin]
        /\ pc = [p \in Procs |-> "idle"]
        /\ job = [p \in Procs |-> NoJob]
        /\ failures = 0
        /\ givenUp = {}
        /\ crossed = {}

Next == \/ \E p \in Procs : \/ Onboard(p) \/ GoogleOnboard(p) \/ Register(p)
                            \/ SlugExists(p) \/ CreateCustomer(p) \/ Create(p)
                            \/ GoogleLogin(p) \/ GetByGoogleSub(p) \/ GetByEmail(p)
                            \/ LoginLink(p) \/ RefreshProfile(p) \/ GetByID(p)
                            \/ LinkGoogle(p) \/ CheckLink(p) \/ Link(p)
                            \/ UnlinkGoogle(p)
        \/ Quiescent

Spec == Init /\ [][Next]_vars

-----------------------------------------------------------------------------
(* Properties *)

TypeOK ==
    /\ customers \in [CustomerIds -> Slugs \cup {Nil}]
    /\ admins \in [AdminIds -> Admin \cup {NoAdmin}]
    /\ pc \in [Procs -> PCs]
    /\ job \in [Procs -> Job]
    /\ failures \in 0..MaxFailures
    /\ givenUp \subseteq CustomerIds
    /\ crossed \subseteq AdminIds

(* Unless an admin's link was changed while a login that had found the     *)
(* admin was under way, the hosted domain is the one of the account that   *)
(* is linked now: none is left of an account unlinked or replaced.         *)
DomainIsOfLinkedAccount ==
    \A a \in Registered \ crossed : admins[a].domain = admins[a].sub

(* Whoever a Google login is about to sign in is the admin the account is  *)
(* linked with at that moment, by whichever way it was found, unless the   *)
(* link was changed meanwhile.                                             *)
SignedInAdminIsLinked ==
    \A p \in Procs :
        pc[p] = "getByID" /\ job[p].admin \notin crossed =>
            WithSub(job[p].sub) = {job[p].admin}

(* A business is without an admin only while its registration is under way *)
(* or when that ended before the last step: two registrations at a time do *)
(* not get each other's.                                                   *)
BusinessesHaveAdmins ==
    \A c \in Businesses :
        \/ \E a \in Registered : admins[a].customer = c
        \/ \E p \in Procs : job[p].customer = c
        \/ c \in givenUp

=============================================================================
