SPECIFICATION WorkerSpec
INVARIANTS WorkerTypeOK SessionsAreSeparate FailureIsTheLastWord
PROPERTIES StoppedWorkerEnds WorkerRecovers
CHECK_DEADLOCK FALSE
