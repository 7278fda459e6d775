------------------------------ MODULE Access64 ------------------------------
(***************************************************************************)
(* Who may do what in the 64-bit port (kernel/arch/x86_64): user records   *)
(* and passwords (passwd64.c), login stacks and their modules (pam64.c,    *)
(* pammod64.c), commands as another user (sudo64.c), groups (group64.c),   *)
(* profiles (secpol64.c), rule sets a program puts on itself (landlk64.c), *)
(* encrypted volumes (luksop64.c), permissions of applications             *)
(* (secctx64.c), system call rules (seccomp64.c) and labels (selinux64.c,  *)
(* selinuxctx64.c).  Each is a part of its own.  A hash is the value it is *)
(* made of; paths are sequences of characters, SLASH among them; permission*)
(* bits are sets.                                                          *)
(***************************************************************************)
EXTENDS Tables64, TLC

CONSTANTS
    PASSWD64_MAX, Logins, Passwords, LastDay, PAM64_MAX_HANDLES, PAM64_MAX_MODS, PamModules,
    SUDO64_MAX_RULES, SudoCommands, SudoEnd, SudoTimeouts, SUDO64_MAX_STAMPS,
    GROUP64_MAX, GroupNames, GROUP64_MAX_MEMBERS, GROUP64_MAX_POLICY,
    SECPOL64_MAX_PROFILES, SECPOL64_MAX_RULES, PolicyPaths, Ops,
    LANDLK64_MAX_RS, LANDLK64_MAX_RULES,
    LUKSOP64_SLOTS, LuksKeys,
    SECCTX64_MAX_APP, AppIds,
    SECCOMP_MAX, SyscallNrs,
    SELINUX64_MAX_RULES, SelinuxTypes, SELCTX64_MAX_LABEL, ContextTexts, FIELD_MAX

\* What the proofs use: tables have a size, times are numbers, paths sequences.
ASSUME Access64Assumption ==
    /\ {PASSWD64_MAX, SUDO64_MAX_STAMPS, GROUP64_MAX, SECPOL64_MAX_PROFILES, LANDLK64_MAX_RS,
        SECCTX64_MAX_APP, SECCOMP_MAX} \subseteq Nat
    /\ SudoEnd \in Nat \ {0} /\ SudoTimeouts \subseteq Nat
    /\ PolicyPaths \subseteq Seq(Nat)

VARIABLES
    pw_tab, sh_tab, pw_today, sh_given, pw_given,
    pam_tab, pm_tab, pm_known,
    su_rules, su_stamps, su_now, su_given,
    gr_tab, gr_pol,
    sp_profiles, sp_rules,
    ll_rs, ll_rules, ll_next, ll_active,
    lk_vol, lk_crc,
    sc_tab,
    se_rules, se_active, se_strict,
    sl_rules, sl_labels, sl_text
loginVars == <<pw_tab, sh_tab, pw_today, sh_given, pw_given>>
pamVars == <<pam_tab, pm_tab, pm_known>>
sudoVars == <<su_rules, su_stamps, su_now, su_given>>
groupVars == <<gr_tab, gr_pol>>
policyVars == <<sp_profiles, sp_rules>>
sandboxVars == <<ll_rs, ll_rules, ll_next, ll_active>>
luksVars == <<lk_vol, lk_crc>>
secctxVars == <<sc_tab>>
seccompVars == <<se_rules, se_active, se_strict>>
selinuxVars == <<sl_rules, sl_labels, sl_text>>

------------------------------
(* User records and passwords.  A day is a number; maxdays 0 never ends.   *)

NoUser == [used |-> FALSE, user |-> "", uid |-> 0]
NoShadow == [used |-> FALSE, user |-> "", hash |-> 0, lastchg |-> 0, maxdays |-> 0]
LoginInit ==
    /\ pw_tab = [i \in 1 .. PASSWD64_MAX |-> NoUser]
    /\ sh_tab = [i \in 1 .. PASSWD64_MAX |-> NoShadow]
    /\ pw_today = 0
    /\ sh_given = [u \in Logins |-> <<>>]      \* what was last set, as it was set
    /\ pw_given = [u \in Logins |-> 0]
UserAt(tab, u) == FirstOf({i \in Taken(tab) : tab[i].user = u})
\* The entry of the user, or a free one.
PlaceOf(tab, u) == IF UserAt(tab, u) # 0 THEN UserAt(tab, u) ELSE FirstFree(tab)
passwd64_add(u, uid) ==
    /\ PlaceOf(pw_tab, u) # 0
    /\ pw_tab' = [pw_tab EXCEPT ![PlaceOf(pw_tab, u)] = [used |-> TRUE, user |-> u, uid |-> uid]]
    /\ pw_given' = [pw_given EXCEPT ![u] = uid]
    /\ UNCHANGED <<sh_tab, pw_today, sh_given>>
passwd64_find(u) == IF UserAt(pw_tab, u) = 0 THEN -2 ELSE pw_tab[UserAt(pw_tab, u)].uid
shadow64_set(u, hash, maxdays) ==
    /\ PlaceOf(sh_tab, u) # 0
    /\ sh_tab' = [sh_tab EXCEPT ![PlaceOf(sh_tab, u)] =
                    [used |-> TRUE, user |-> u, hash |-> hash, lastchg |-> pw_today, maxdays |-> maxdays]]
    /\ sh_given' = [sh_given EXCEPT ![u] = <<hash, pw_today, maxdays>>]
    /\ UNCHANGED <<pw_tab, pw_today, pw_given>>
shadow64_check(u, hash, today) ==
    LET s == sh_tab[UserAt(sh_tab, u)]
    IN IF UserAt(sh_tab, u) = 0 THEN -4
       ELSE IF s.hash # hash THEN -2
       ELSE IF s.maxdays # 0 /\ today > s.lastchg + s.maxdays THEN -3 ELSE 0
NextDay ==
    /\ pw_today < LastDay
    /\ pw_today' = pw_today + 1
    /\ UNCHANGED <<pw_tab, sh_tab, sh_given, pw_given>>
LoginNext ==
    \/ \E u \in Logins, uid \in 1 .. 2 : passwd64_add(u, uid)
    \/ \E u \in Logins, h \in Passwords, m \in 0 .. 1 : shadow64_set(u, h, m)
    \/ NextDay

------------------------------
(* Login stacks.  A module is a name with the function registered for it;  *)
(* a stack keeps the functions, which answer when it is run.  The function *)
(* "unix" answers for users that have a record.                            *)

PamInit ==
    /\ pam_tab = [i \in 1 .. PAM64_MAX_HANDLES |-> [used |-> FALSE, chain |-> <<>>]]
    /\ pm_tab = [n \in PamModules |-> n]        \* pammod64_builtin
    /\ pm_known = FALSE                         \* the user has a record
pammod64_register(name, fn) ==
    pm_tab[name] # fn /\ pm_tab' = [pm_tab EXCEPT ![name] = fn] /\ UNCHANGED <<pam_tab, pm_known>>
pammod64_find(name) == pm_tab[name]
Answers(fn) == CASE fn = "permit" -> TRUE [] fn = "deny" -> FALSE [] fn = "unix" -> pm_known
UserAdded == ~pm_known /\ pm_known' = TRUE /\ UNCHANGED <<pam_tab, pm_tab>>
pam64_start ==
    /\ FirstFree(pam_tab) # 0
    /\ pam_tab' = [pam_tab EXCEPT ![FirstFree(pam_tab)] = [used |-> TRUE, chain |-> <<>>]]
    /\ UNCHANGED <<pm_tab, pm_known>>
pam64_add(h, name, control) ==
    /\ pam_tab[h].used /\ Len(pam_tab[h].chain) < PAM64_MAX_MODS
    /\ pam_tab' = [pam_tab EXCEPT ![h].chain = Append(@, [fn |-> pammod64_find(name), control |-> control])]
    /\ UNCHANGED <<pm_tab, pm_known>>
SufficientEnds(m, st) == m.control = "sufficient" /\ ~st.failed
PamStep(st, m) ==
    IF st.done THEN st
    ELSE IF Answers(m.fn) THEN (IF SufficientEnds(m, st) THEN [st EXCEPT !.done = TRUE, !.rc = 0] ELSE st)
    ELSE IF m.control \in {"optional", "sufficient"} THEN st
    ELSE IF m.control = "requisite" THEN [st EXCEPT !.done = TRUE, !.rc = -2]
    ELSE [st EXCEPT !.failed = TRUE]
pam64_run(h) ==
    LET st == FoldLeft(PamStep, [done |-> FALSE, failed |-> FALSE, rc |-> 0], pam_tab[h].chain)
    IN IF st.done THEN st.rc ELSE IF st.failed THEN -3 ELSE 0
pam64_end(h) ==
    /\ pam_tab[h].used
    /\ pam_tab' = [pam_tab EXCEPT ![h] = [used |-> FALSE, chain |-> <<>>]]
    /\ UNCHANGED <<pm_tab, pm_known>>
PamControls == {"required", "requisite", "sufficient", "optional"}
PamNext ==
    \/ pam64_start \/ UserAdded
    \/ \E n, fn \in PamModules : pammod64_register(n, fn)
    \/ \E h \in 1 .. PAM64_MAX_HANDLES : pam64_end(h) \/ \E n \in PamModules, c \in PamControls : pam64_add(h, n, c)

------------------------------
(* Commands as another user.  A rule is for one user; "*" is any command.  *)

SudoInit ==
    /\ su_rules = <<>>
    /\ su_stamps = [i \in 1 .. SUDO64_MAX_STAMPS |-> [used |-> FALSE, user |-> "", time |-> 0]]
    /\ su_now = 1
    /\ su_given = [u \in Logins |-> -1]
sudo64_rule_add(u, cmd, nopasswd) ==
    /\ Len(su_rules) < SUDO64_MAX_RULES
    /\ su_rules' = Append(su_rules, [user |-> u, command |-> cmd, nopasswd |-> nopasswd])
    /\ UNCHANGED <<su_stamps, su_now, su_given>>
SudoMatches(rules, u, cmd) ==
    {i \in 1 .. Len(rules) : rules[i].user = u /\ rules[i].command \in {"*", cmd}}
\* The first rule that matches.
SudoDecides(S) == Min(S)
sudo64_check(rules, u, cmd) ==
    LET S == SudoMatches(rules, u, cmd)
    IN IF S = {} THEN "no" ELSE IF rules[SudoDecides(S)].nopasswd THEN "free" ELSE "password"
sudo64_stamp(u) ==
    /\ PlaceOf(su_stamps, u) # 0
    /\ su_stamps' = [su_stamps EXCEPT ![PlaceOf(su_stamps, u)] = [used |-> TRUE, user |-> u, time |-> su_now]]
    /\ su_given' = [su_given EXCEPT ![u] = su_now]
    /\ UNCHANGED <<su_rules, su_now>>
ClockBack(now, time) == now < time
\* Time is unsigned: the difference wraps (here at SudoEnd + 1).
sudo64_stamp_valid(u, now, timeout) ==
    LET i == UserAt(su_stamps, u)
    IN /\ i # 0
       /\ ~ClockBack(now, su_stamps[i].time)
       /\ (now - su_stamps[i].time) % (SudoEnd + 1) <= timeout
\* The clock is set, forwards or back.
SetClock(t) == t # su_now /\ su_now' = t /\ UNCHANGED <<su_rules, su_stamps, su_given>>
SudoNext ==
    \/ \E u \in Logins : sudo64_stamp(u)
    \/ \E u \in Logins, c \in {"*"} \cup SudoCommands, n \in BOOLEAN : sudo64_rule_add(u, c, n)
    \/ \E t \in 1 .. SudoEnd : SetClock(t)

------------------------------
(* Groups, their members and what a group may do with the one resource.    *)

GroupInit ==
    /\ gr_tab = [i \in 1 .. GROUP64_MAX |-> [used |-> FALSE, user |-> "", gid |-> 0, members |-> {}]]
    /\ gr_pol = <<>>
\* A group that exists only takes the number.
Regrouped(g, name, gid) ==
    [used |-> TRUE, user |-> name, gid |-> gid, members |-> IF g.used THEN g.members ELSE {}]
group64_add(name, gid) ==
    /\ PlaceOf(gr_tab, name) # 0
    /\ gr_tab' = [gr_tab EXCEPT ![PlaceOf(gr_tab, name)] = Regrouped(@, name, gid)]
    /\ UNCHANGED gr_pol
group64_add_member(name, u) ==
    /\ UserAt(gr_tab, name) # 0
    /\ Cardinality(gr_tab[UserAt(gr_tab, name)].members) < GROUP64_MAX_MEMBERS
    /\ gr_tab' = [gr_tab EXCEPT ![UserAt(gr_tab, name)].members = @ \cup {u}]
    /\ UNCHANGED gr_pol
group64_is_member(tab, name, u) == UserAt(tab, name) # 0 /\ u \in tab[UserAt(tab, name)].members
group64_policy_add(name, perm) ==
    /\ Len(gr_pol) < GROUP64_MAX_POLICY
    /\ gr_pol' = Append(gr_pol, [group |-> name, perm |-> perm])
    /\ UNCHANGED gr_tab
\* Any of the bits asked for is enough.
group64_check(tab, pol, u, perm) ==
    \E i \in 1 .. Len(pol) : pol[i].perm \cap perm # {} /\ group64_is_member(tab, pol[i].group, u)
GroupNext ==
    \/ \E n \in GroupNames, g \in 1 .. 2 : group64_add(n, g)
    \/ \E n \in GroupNames, u \in Logins : group64_add_member(n, u)
    \/ \E n \in GroupNames, p \in (SUBSET Ops) \ {{}} : group64_policy_add(n, p)

------------------------------
(* Profiles: the paths under a prefix, with rules for single paths.        *)

SLASH == 0
PolicyInit ==
    /\ sp_profiles = [i \in 1 .. SECPOL64_MAX_PROFILES |-> [used |-> FALSE, user |-> "", prefix |-> <<>>, enforce |-> FALSE]]
    /\ sp_rules = <<>>
secpol64_add_apparmor(name, prefix, enforce) ==
    /\ UserAt(sp_profiles, name) = 0 /\ FirstFree(sp_profiles) # 0
    /\ sp_profiles' = [sp_profiles EXCEPT ![FirstFree(sp_profiles)] =
                          [used |-> TRUE, user |-> name, prefix |-> prefix, enforce |-> enforce]]
    /\ UNCHANGED sp_rules
secpol_prefix(prefix, path) == IsPrefix(prefix, path) /\ prefix # <<>> /\ Last(prefix) = SLASH
secpol64_add_rule(name, path, ops) ==
    /\ UserAt(sp_profiles, name) # 0 /\ Len(sp_rules) < SECPOL64_MAX_RULES
    /\ sp_rules' = Append(sp_rules, [profile |-> name, path |-> path, ops |-> ops])
    /\ UNCHANGED sp_profiles
secpol_rule_hits(rules, name, path, op) ==
    \E i \in 1 .. Len(rules) : rules[i].profile = name /\ rules[i].path = path /\ op \subseteq rules[i].ops
secpol64_check(profiles, rules, name, path, op) ==
    LET p == profiles[UserAt(profiles, name)]
    IN /\ UserAt(profiles, name) # 0
       /\ \/ secpol_rule_hits(rules, name, path, op)
          \/ ~secpol_prefix(p.prefix, path)
          \/ ~p.enforce
secpol64_set_mode(name, enforce) ==
    /\ UserAt(sp_profiles, name) # 0
    /\ sp_profiles' = [sp_profiles EXCEPT ![UserAt(sp_profiles, name)].enforce = enforce]
    /\ UNCHANGED sp_rules
PolicyNext ==
    \/ \E n \in GroupNames, p \in PolicyPaths, e \in BOOLEAN : secpol64_add_apparmor(n, p, e)
    \/ \E n \in GroupNames, p \in PolicyPaths, o \in (SUBSET Ops) \ {{}} : secpol64_add_rule(n, p, o)
    \/ \E n \in GroupNames, e \in BOOLEAN : secpol64_set_mode(n, e)

------------------------------
(* Rule sets a program restricts itself with.                              *)

SandboxInit ==
    /\ ll_rs = [i \in 1 .. LANDLK64_MAX_RS |-> [used |-> FALSE, id |-> 0, handled |-> {}, restricted |-> FALSE]]
    /\ ll_rules = <<>>
    /\ ll_next = 1
    /\ ll_active = 0
landlk_rs_find(id) == FirstOf({i \in Taken(ll_rs) : ll_rs[i].id = id})
landlk_has_prefix(prefix, path) ==
    /\ IsPrefix(prefix, path)
    /\ \/ prefix # <<>> /\ Last(prefix) = SLASH
       \/ Len(path) = Len(prefix)
       \/ path[Len(prefix) + 1] = SLASH
landlk64_create_ruleset(handled) ==
    /\ FirstFree(ll_rs) # 0
    /\ ll_rs' = [ll_rs EXCEPT ![FirstFree(ll_rs)] =
                    [used |-> TRUE, id |-> ll_next, handled |-> handled, restricted |-> FALSE]]
    /\ ll_next' = ll_next + 1
    /\ UNCHANGED <<ll_rules, ll_active>>
RulesOpen(rs) == ~rs.restricted
landlk64_add_path_rule(id, path, access) ==
    /\ landlk_rs_find(id) # 0
    /\ RulesOpen(ll_rs[landlk_rs_find(id)])
    /\ access \subseteq ll_rs[landlk_rs_find(id)].handled
    /\ Len(ll_rules) < LANDLK64_MAX_RULES
    /\ ll_rules' = Append(ll_rules, [rs |-> id, path |-> path, access |-> access])
    /\ UNCHANGED <<ll_rs, ll_next, ll_active>>
landlk64_restrict_self(id) ==
    /\ landlk_rs_find(id) # 0
    /\ ll_active' = id
    /\ ll_rs' = [ll_rs EXCEPT ![landlk_rs_find(id)].restricted = TRUE]
    /\ UNCHANGED <<ll_rules, ll_next>>
landlk64_check(rules, active, path, access) ==
    \/ active = 0
    \/ \E i \in 1 .. Len(rules) :
          rules[i].rs = active /\ landlk_has_prefix(rules[i].path, path) /\ access \subseteq rules[i].access
SandboxNext ==
    \/ \E h \in SUBSET Ops : landlk64_create_ruleset(h)
    \/ \E id \in 1 .. LANDLK64_MAX_RS :
          \/ landlk64_restrict_self(id)
          \/ \E p \in PolicyPaths, a \in SUBSET Ops : landlk64_add_path_rule(id, p, a)

------------------------------
(* The encrypted volume.  The checksum of its header covers the key length,*)
(* the state and the key slots.                                            *)

NoSlot == [used |-> FALSE, key |-> 0]
NoVolume == [bits |-> 0, open |-> FALSE, slots |-> [s \in 1 .. LUKSOP64_SLOTS |-> NoSlot]]
vol_crc(v) == v
LuksInit ==
    /\ lk_vol = NoVolume                    \* luksop64_init
    /\ lk_crc = vol_crc(NoVolume)
luksop64_format(bits) ==
    /\ ~lk_vol.open
    /\ \E v \in {[NoVolume EXCEPT !.bits = bits]} : lk_vol' = v /\ lk_crc' = vol_crc(v)
luksop64_add_key_slot(s, key) ==
    /\ ~lk_vol.open /\ ~lk_vol.slots[s].used
    /\ \E v \in {[lk_vol EXCEPT !.slots[s] = [used |-> TRUE, key |-> key]]} : lk_vol' = v /\ lk_crc' = vol_crc(v)
luksop64_verify_key(s, key) == lk_vol.slots[s].used /\ lk_vol.slots[s].key = key
luksop64_unlock(s, key) ==
    /\ ~lk_vol.open /\ luksop64_verify_key(s, key)
    /\ \E v \in {[lk_vol EXCEPT !.open = TRUE]} : lk_vol' = v /\ lk_crc' = vol_crc(v)
luksop64_lock ==
    /\ lk_vol.open
    /\ \E v \in {[lk_vol EXCEPT !.open = FALSE]} : lk_vol' = v /\ lk_crc' = vol_crc(v)
LuksNext ==
    \/ luksop64_lock
    \/ \E b \in {128, 256} : luksop64_format(b)
    \/ \E s \in 1 .. LUKSOP64_SLOTS, k \in LuksKeys : luksop64_add_key_slot(s, k) \/ luksop64_unlock(s, k)

------------------------------
(* Permissions of applications: a prompt waits until it is granted.  A     *)
(* request is for one permission.                                          *)

NoApp == [used |-> FALSE, user |-> "", perms |-> {}, pending |-> {}]
SecctxInit == sc_tab = [i \in 1 .. SECCTX64_MAX_APP |-> NoApp]
secctx64_find(app) == UserAt(sc_tab, app)
\* Registered again, an application keeps what it was granted.
secctx64_register(app) ==
    /\ secctx64_find(app) = 0 /\ FirstFree(sc_tab) # 0
    /\ sc_tab' = [sc_tab EXCEPT ![FirstFree(sc_tab)] = [NoApp EXCEPT !.used = TRUE, !.user = app]]
secctx64_grant(app, perm) ==
    /\ secctx64_find(app) # 0
    /\ sc_tab' = [sc_tab EXCEPT ![secctx64_find(app)].perms = @ \cup {perm},
                                ![secctx64_find(app)].pending = @ \ {perm}]
secctx64_revoke(app, perm) ==
    /\ secctx64_find(app) # 0
    /\ sc_tab' = [sc_tab EXCEPT ![secctx64_find(app)].perms = @ \ {perm}]
secctx64_prompt(app, perm) ==
    /\ secctx64_find(app) # 0 /\ perm \notin sc_tab[secctx64_find(app)].perms
    /\ sc_tab' = [sc_tab EXCEPT ![secctx64_find(app)].pending = @ \cup {perm}]
SecctxNext ==
    \E app \in AppIds :
        \/ secctx64_register(app)
        \/ \E p \in Ops : secctx64_grant(app, p) \/ secctx64_revoke(app, p) \/ secctx64_prompt(app, p)

------------------------------
(* System call rules.  They answer whether a filter is loaded or not.      *)

SeccompInit ==
    /\ se_rules = [i \in 1 .. SECCOMP_MAX |-> [used |-> FALSE, user |-> 0, action |-> 0]]
    /\ se_active = FALSE
    /\ se_strict = FALSE
seccomp_find(rules, nr) == UserAt(rules, nr)
\* As LoadAllowed, a bug: loading again empties the rules of a loaded filter.
LoadAllowedAgain == TRUE
LoadAllowed == ~se_active
seccomp64_load ==
    /\ LoadAllowed
    /\ se_active' = TRUE
    /\ se_rules' = [i \in DOMAIN se_rules |-> [used |-> FALSE, user |-> 0, action |-> 0]]
    /\ UNCHANGED se_strict
seccomp64_unload == se_active /\ se_active' = FALSE /\ UNCHANGED <<se_rules, se_strict>>
\* seccomp64_add_rule needs a loaded filter, seccomp64_add does not.
seccomp64_add_rule(nr, action) ==
    /\ seccomp_find(se_rules, nr) = 0 /\ FirstFree(se_rules) # 0
    /\ se_rules' = [se_rules EXCEPT ![FirstFree(se_rules)] = [used |-> TRUE, user |-> nr, action |-> action]]
    /\ UNCHANGED <<se_active, se_strict>>
seccomp64_strict(on) == on # se_strict /\ se_strict' = on /\ UNCHANGED <<se_rules, se_active>>
seccomp64_check(rules, strict, nr) ==
    IF seccomp_find(rules, nr) # 0 THEN rules[seccomp_find(rules, nr)].action ELSE IF strict THEN 0 ELSE 1
SeccompNext ==
    \/ seccomp64_load \/ seccomp64_unload
    \/ \E nr \in SyscallNrs, a \in 0 .. 1 : seccomp64_add_rule(nr, a)
    \/ \E on \in BOOLEAN : seccomp64_strict(on)

------------------------------
(* Labels: contexts as text with fields user:role:type:level, rules between*)
(* types, and the label of a path.  COLON separates the fields.            *)

COLON == 9
SelinuxInit == sl_rules = <<>> /\ sl_labels = <<>> /\ sl_text = <<>>
\* One field: up to a colon or to the end, at most FIELD_MAX characters.
FieldEnd(text, from) ==
    Min({n \in from .. Len(text) + 1 : n = Len(text) + 1 \/ text[n] = COLON \/ n - from = FIELD_MAX})
FieldSep(text, n) == n <= Len(text) /\ text[n] = COLON
ParseField(st, f) ==
    LET text == st.text
        n == FieldEnd(text, st.pos)
    IN IF ~st.ok THEN st
       ELSE [st EXCEPT !.fields = Append(@, SubSeq(text, st.pos, n - 1)), !.pos = n + 1,
                       !.ok = f = 4 \/ FieldSep(text, n)]
selinux64_parse(text) ==
    LET st == FoldLeft(ParseField, [text |-> text, pos |-> 1, ok |-> TRUE, fields |-> <<>>], <<1, 2, 3, 4>>)
    IN IF ~st.ok THEN <<>> ELSE IF \E f \in 1 .. 3 : st.fields[f] = <<>> THEN <<>> ELSE st.fields
WriteContext(text) ==
    sl_text = <<>> /\ sl_rules = <<>> /\ sl_labels = <<>> /\ sl_text' = text /\ UNCHANGED <<sl_rules, sl_labels>>
selinux64_add_rule(src, dst, perms) ==
    /\ Len(sl_rules) < SELINUX64_MAX_RULES /\ sl_text = <<>> /\ sl_labels = <<>>
    /\ sl_rules' = Append(sl_rules, [src |-> src, dst |-> dst, perms |-> perms])
    /\ UNCHANGED <<sl_labels, sl_text>>
SelinuxMatches(rules, src, dst) == {i \in 1 .. Len(rules) : rules[i].src = src /\ rules[i].dst = dst}
SelinuxDecides(S) == Min(S)
selinux64_check(rules, src, dst, perm) ==
    LET S == SelinuxMatches(rules, src, dst) IN S # {} /\ perm \in rules[SelinuxDecides(S)].perms
selinuxctx64_add(prefix, ctx) ==
    /\ Len(sl_labels) < SELCTX64_MAX_LABEL /\ sl_text = <<>> /\ sl_rules = <<>>
    /\ sl_labels' = Append(sl_labels, [prefix |-> prefix, ctx |-> ctx])
    /\ UNCHANGED <<sl_rules, sl_text>>
\* The labels of a path, and of these the longest; the first of them counts.
LabelsOf(labels, path) == {i \in 1 .. Len(labels) : IsPrefix(labels[i].prefix, path)}
LongestLabels(labels, path) ==
    {i \in LabelsOf(labels, path) : \A j \in LabelsOf(labels, path) :
        Len(labels[j].prefix) <= Len(labels[i].prefix)}
selinuxctx64_label(labels, path) ==
    LET best == FirstOf(LongestLabels(labels, path)) IN IF best = 0 THEN 0 ELSE labels[best].ctx
SelinuxNext ==
    \/ \E t \in ContextTexts : WriteContext(t)
    \/ \E s \in SelinuxTypes, d \in SelinuxTypes, p \in SUBSET Ops : selinux64_add_rule(s, d, p)
    \/ \E p \in PolicyPaths, c \in 1 .. 2 : selinuxctx64_add(p, c)

------------------------------

\* Whatever happened since, a user logs in with the password set last and as
\* long as it was set for, and has the number given last.
LoginsCurrent ==
    \A u \in Logins :
        /\ passwd64_find(u) = IF pw_given[u] = 0 THEN -2 ELSE pw_given[u]
        /\ \A h \in Passwords :
              shadow64_check(u, h, pw_today) = 0 <=>
                  /\ sh_given[u] # <<>>
                  /\ sh_given[u][1] = h
                  /\ sh_given[u][3] = 0 \/ pw_today <= sh_given[u][2] + sh_given[u][3]

\* A stack lets a user in exactly when some sufficient module says yes and no
\* required or requisite one said no before it, or none says no at all.
StackDecides ==
    \A h \in Taken(pam_tab) :
        LET chain == pam_tab[h].chain
            Refused(n) == \E j \in 1 .. n : ~Answers(chain[j].fn) /\ chain[j].control \in {"required", "requisite"}
        IN pam64_run(h) = 0 <=>
              \/ ~Refused(Len(chain))
              \/ \E i \in 1 .. Len(chain) : Answers(chain[i].fn) /\ chain[i].control = "sufficient" /\ ~Refused(i - 1)

\* A stamp counts only from when it was made on, for the time out, also when
\* the clock was set back.
StampHonest ==
    \A u \in Logins, timeout \in SudoTimeouts :
        sudo64_stamp_valid(u, su_now, timeout) <=>
            su_given[u] # -1 /\ su_now >= su_given[u] /\ su_now <= su_given[u] + timeout

\* A rule that is added does not change the answer on a command an earlier
\* rule answers for.
EarlierSudoHolds ==
    [\A u \in Logins, c \in SudoCommands :
        sudo64_check(su_rules, u, c) # "no" => sudo64_check(su_rules', u, c) = sudo64_check(su_rules, u, c)]_sudoVars

\* No operation on groups takes away what a user may do.
GrantsGrow ==
    [\A u \in Logins, o \in Ops :
        group64_check(gr_tab, gr_pol, u, {o}) => group64_check(gr_tab', gr_pol', u, {o})]_groupVars

\* What is done to one profile does not change the answers of another.
ProfilesApart ==
    [Cardinality({n \in GroupNames : \E p \in PolicyPaths, o \in Ops :
          secpol64_check(sp_profiles, sp_rules, n, p, {o})
              # secpol64_check(sp_profiles', sp_rules', n, p, {o})}) <= 1]_policyVars

\* The rule set a program put on itself gives the same answers as long as it
\* is in force.
SandboxSealed ==
    [ll_active # 0 /\ ll_active' = ll_active =>
        \A p \in PolicyPaths, o \in Ops :
            landlk64_check(ll_rules', ll_active', p, {o}) = landlk64_check(ll_rules, ll_active, p, {o})]_sandboxVars

\* The checksum in the header is that of the volume as it is.
HeaderCurrent == lk_crc = vol_crc(lk_vol)

\* Nothing waits for a permission the application has.
NothingWaitsInVain == \A i \in Taken(sc_tab) : sc_tab[i].pending \cap sc_tab[i].perms = {}

\* The answer of a rule stays as long as the filter is loaded, in either mode.
FilterLasts ==
    [se_active /\ se_active' =>
        \A nr \in SyscallNrs : seccomp_find(se_rules, nr) # 0 =>
            seccomp64_check(se_rules', se_strict', nr) = seccomp64_check(se_rules, se_strict, nr)]_seccompVars

\* A context is taken exactly when its first three fields are there, none
\* empty, each of at most FIELD_MAX characters; they are what was written.
ContextsParsed ==
    LET seps == {i \in 1 .. Len(sl_text) : sl_text[i] = COLON}
        Nth4(k) == CHOOSE i \in seps : Cardinality({j \in seps : j <= i}) = k
        From(k) == IF k = 1 THEN 1 ELSE Nth4(k - 1) + 1
        Text(k) == SubSeq(sl_text, From(k), Nth4(k) - 1)
        good == Cardinality(seps) >= 3 /\ \A k \in 1 .. 3 : Len(Text(k)) \in 1 .. FIELD_MAX
    IN IF good THEN \A k \in 1 .. 3 : selinux64_parse(sl_text)[k] = Text(k) ELSE selinux64_parse(sl_text) = <<>>

\* A rule that is added does not change the answer an earlier rule gives ...
EarlierTypesHold ==
    [\A s, d \in SelinuxTypes, o \in Ops :
        SelinuxMatches(sl_rules, s, d) # {} =>
            selinux64_check(sl_rules', s, d, o) = selinux64_check(sl_rules, s, d, o)]_selinuxVars

\* ... and a label only that of paths it names more closely than all before.
LabelsNarrow ==
    [\A p \in PolicyPaths :
        selinuxctx64_label(sl_labels', p) # selinuxctx64_label(sl_labels, p) =>
            LET new == Last(sl_labels').prefix
            IN /\ IsPrefix(new, p)
               /\ \A i \in 1 .. Len(sl_labels) :
                     IsPrefix(sl_labels[i].prefix, p) => Len(sl_labels[i].prefix) < Len(new)]_selinuxVars
==============================
