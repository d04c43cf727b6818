SPECIFICATION KeySpec
CONSTANTS
    Password = {"", "weak", "strong", "long"}
    Weak = {"weak"}
    TooLong = {"long"}
    OldKeys <- MCOldKeys
    Text = {"text"}
    MaxEdits = 1
    MaxChanges = 2
INVARIANTS UnlocksExactly OpensExactly ConfirmedRecipientOpens RefusedByName
CHECK_DEADLOCK FALSE
