CONSTANTS
    Steps = {1, 2}
    Keys = {"key"}
    SecretKeys = {"declared", "other"}
    Operations = {"render", "submit"}
    Invocations <- MCInvocations
    NoGrant = noGrant
SPECIFICATION Spec
CHECK_DEADLOCK FALSE
INVARIANT TimeoutReported
