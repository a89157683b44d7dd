----------------------------- MODULE GitHelpers -----------------------------
(***************************************************************************)
(* What a test asks of git, common/git.go.  The state of the working copy  *)
(* is a record of what each git command that is run says: its text, ""     *)
(* where it says nothing, or Failed.                                       *)
(***************************************************************************)
EXTENDS Integers, Sequences, FiniteSets, SequencesExt

Failed == "failed"
Nothing == ""
OrElse(said, other) == IF said \in {Nothing, Failed} THEN other ELSE said

\* gitRootPath: the root, or a directory that has a .git of its own.
GitRootPath(git) ==
    IF git.toplevel # Failed THEN git.toplevel
    ELSE IF git.dotGitHere THEN "here" ELSE IF git.dotGitInCwd THEN "cwd" ELSE Failed

\* getRemoteOriginURL, getOriginURL and getOriginBranch.
GetRemoteOriginURL(git) == git.origin

GetOriginURL(git) == IF git.upstream # Failed THEN git.upstream
                     ELSE IF git.origin # Failed THEN git.origin ELSE Nothing

GetOriginBranch(git) == OrElse(git.originHead, OrElse(git.upstreamHead, OrElse(git.symbolicRef, Nothing)))

\* getCurrentBranch: what git status says is only looked at for whether it names a branch.
GetCurrentBranch(git) ==
    LET known == OrElse(git.symbolicRef, OrElse(git.revParse, "")) IN
    IF known = "" /\ git.statusBranch \in {"", Failed} THEN Failed ELSE known

\* The environment comes before what the caller gives; unless both are known then, both are
\* asked of git.
GetBaseRepoAndBranch(given, env, git) ==
    LET repo == IF env.repo = Failed THEN given.repo ELSE env.repo
        branch == IF env.branch = Failed THEN given.branch ELSE env.branch
    IN  IF Nothing \notin {repo, branch} THEN [repo |-> repo, branch |-> branch, fatal |-> FALSE]
        ELSE IF GitRootPath(git) = Failed THEN [repo |-> Nothing, branch |-> Nothing, fatal |-> TRUE]
        ELSE [repo |-> GetOriginURL(git), branch |-> GetOriginBranch(git), fatal |-> FALSE]

GetCurrentPrRepoAndBranch(git) ==
    IF Failed \in {GetCurrentBranch(git), GitRootPath(git), GetRemoteOriginURL(git)}
    THEN [repo |-> "", branch |-> "", error |-> TRUE]
    ELSE [repo |-> GetRemoteOriginURL(git), branch |-> GetCurrentBranch(git), error |-> FALSE]

\* SkipUpgradeTest: the words found in the messages of the branch's commits; git's failure to
\* list them leaves no words.
SkipUpgradeTest(git, words) ==
    /\ git.addRemote /\ git.fetch
    /\ words \cap {"BREAKING CHANGE", "SKIP UPGRADE TEST"} # {}
    /\ "UNSKIP UPGRADE TEST" \notin words

\* The files, and in their order those of the others that are not there yet.
WithNew(files, others) ==
    LET all[i \in 0 .. Len(others)] ==
            IF i = 0 THEN files
            ELSE IF others[i] \in ToSet(all[i - 1]) THEN all[i - 1]
            ELSE Append(all[i - 1], others[i])
    IN  all[Len(others)]

\* changesToBePush.  A command lists files, and may have said something without one, such as
\* for commits that change no file; without an upstream the last commit stands for what is
\* not pushed.
Listed(command) == IF command.ok THEN command ELSE [ok |-> FALSE, files |-> <<>>, blank |-> FALSE]

ChangesToBePush(git) ==
    LET unpushed == Listed(IF git.unpushed.ok THEN git.unpushed ELSE git.lastCommit)
    IN  IF ~git.status.ok THEN [error |-> TRUE, changes |-> FALSE, files |-> <<>>]
        ELSE [error |-> FALSE, changes |-> git.status.files # <<>> \/ unpushed.files # <<>> \/ unpushed.blank,
              files |-> WithNew(git.status.files, unpushed.files)]

CheckRemoteBranchExists(repo, branch, git) ==
    IF "" \in {repo, branch} \/ git.lsRemote = Failed THEN Failed
    ELSE IF git.lsRemote = "" THEN "no" ELSE "yes"

\* getFileDiff: the working copy's, or else that of what is staged.
GetFileDiff(git) == IF git.diff = "" THEN git.cachedDiff ELSE git.diff

\* commitExistsInRemote: of all branches and pull requests; what cannot be fetched is an error.
CommitExistsInRemote(commit, auth, remote) ==
    IF auth = Failed \/ ~remote.fetched THEN Failed ELSE IF commit \in remote.commits THEN "yes" ELSE "no"

(* GitAutoAuth: what can be tried in its order, each for whether the remote accepts it; of an *)
(* https remote nothing is tried.                                                             *)
sshKeys == <<"agent", "SSH_PRIVATE_KEY", "id_rsa">>
httpsTokens == <<"GITHUB_TOKEN", "GIT_TOKEN", "GITLAB_TOKEN", "BITBUCKET_TOKEN">>

First(list, other) == IF list = <<>> THEN other ELSE Head(list)

SshAuth(accepted) == First(SelectSeq(sshKeys, LAMBDA k : k \in accepted), Failed)

\* The first machine of the host; a machine is read where six words are left.
LookupNetrcMachine(words, host) ==
    LET starts == {i \in DOMAIN words : words[i] = "machine" /\ i + 5 <= Len(words)
                                        /\ words[i + 1] = host}
    IN  IF starts = {} THEN Failed ELSE words[(CHOOSE i \in starts : \A k \in starts : i <= k) + 3]

HttpsAuth(words, host, present) ==
    OrElse(LookupNetrcMachine(words, host),
           First(SelectSeq(httpsTokens, LAMBDA t : t \in present), "anonymous"))

GitAutoAuth(remote, accepted, words, present) ==
    IF remote.ssh THEN SshAuth(accepted) ELSE HttpsAuth(words, remote.host, present)

\* RetrievePrivateKey: with the passphrase of the environment where there is one.
RetrievePrivateKey(key, passphrase) == key.valid /\ (key.passphrase = passphrase)
-----------------------------------------------------------------------------
\* The base of a test is one pair: what was given for both, or what git says of both, never
\* the repository of the one with the branch of the other; no base means a fatal end.
BaseRight(given, env, git, base) ==
    base.fatal \/
    LET told(n) == IF env[n] # Failed THEN env[n] ELSE given[n] IN
    \/ base.repo = told("repo") /\ base.branch = told("branch") /\ Nothing \notin {base.repo, base.branch}
    \/ base.repo = GetOriginURL(git) /\ base.branch = GetOriginBranch(git)

\* Every file that has changed is in the list once, if git lists it once, and there are
\* changes when there is one; a working copy that is not known has an error.
ChangesRight(git, changes) ==
    IF ~git.status.ok THEN changes.error ELSE
    /\ ~changes.error
    /\ changes.files # <<>> => changes.changes
    /\ ToSet(git.status.files) \subseteq ToSet(changes.files)
    /\ git.unpushed.ok => ToSet(changes.files) = ToSet(git.status.files \o git.unpushed.files)
    /\ \A i, k \in DOMAIN changes.files : changes.files[i] = changes.files[k] =>
          i = k \/ changes.files[i] \in ToSet(git.status.files)
=============================================================================
