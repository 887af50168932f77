----------------------------- MODULE MCNodeJobs -----------------------------
\* NodeJobs with a request of each sort.
EXTENDS NodeJobs

CONSTANTS home, sub, away, gone

Stream(code, good, job, arg) == [op |-> code, good |-> good, job |-> job, arg |-> arg]
Plain1(code) == Stream(code, TRUE, 0, Nothing)
Chdir1(dir) == Stream("CHDIR", TRUE, 0, dir)
N2N1(job) == Stream("N2N", TRUE, job, Nothing)
KillCode(code) == Stream("KILLJOBBYCMDCODE", TRUE, 0, code)
KillId == Stream("KILLJOBID", TRUE, 1, Nothing)
Fetch == Plain1("FILES_FETCH")
BadDelete == Stream("FILES_DEL", FALSE, 0, Nothing)
Snippet1 == Plain1("EXECSNIPPET")
Func == Plain1("MOD_EXECFUNC")
ShortFunc == Stream("MOD_EXECFUNC", FALSE, 0, "short")
Load == Plain1("MOD_LOADSCRIPT")
Reload == Stream("MOD_LOADSCRIPT", TRUE, 0, "overwrite")
Unload == Plain1("MOD_UNLOADSCRIPT")
Ping == Plain1("PING")
Update == Plain1("USEUPDATE")

\* Directories; loaded scripts; kills; node-to-node streams; a startup script.
MCPlans ==
  [startup : {FALSE}, sent :
    {<<Chdir1(away), Chdir1(home), Plain1("GETCWD")>>,
     <<Chdir1("sub"), Chdir1("sub"), Plain1("FILES_MOVE")>>,
     <<Chdir1(gone), Fetch, KillId>>, <<Chdir1(away), Chdir1(home), Update>>,
     <<Load, Func, Unload>>, <<Load, Reload, Func>>, <<Load, Load, Unload>>,
     <<ShortFunc, Ping>>, <<Plain1("EXECCMD"), Plain1("GETJOBSLIST"), Plain1("NOOP")>>,
     <<BadDelete, Plain1("FILES_PLACE"), Plain1("UNKNOWN")>>,
     <<Plain1("FILES_COPY"), Plain1("KILLPROCESS")>>,
     <<Plain1("LISTDIRECTORY"), Plain1("GETPROCESSES")>>, <<Plain1("FILES_DEL")>>,
     <<Plain1("EXECCMD"), Plain1("EXECCMD"), KillCode("EXECCMD")>>,
     <<Snippet1, Ping, KillCode("EXECSNIPPET")>>, <<Plain1("EXECCMD"), Plain1("EXECCMD"), Update>>,
     <<Plain1("FILES_MOVE"), Fetch, KillId>>, <<Snippet1, N2N1(1), N2N1(0)>>}]
  \cup [startup : {TRUE}, sent :
    {<<N2N1(1), Plain1("SLEEP")>>, <<Plain1("HOSTREPORT"), KillId>>}]

\* sub is a directory below home; gone is nowhere.
MCLeads == [d \in {home, sub, away} \X {home, "sub", away, gone} |->
  CASE d[2] = gone -> Nothing
    [] d[2] = "sub" -> IF d[1] = home THEN sub ELSE Nothing
    [] OTHER -> d[2]]
=============================================================================
