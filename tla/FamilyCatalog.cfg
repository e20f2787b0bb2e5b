SPECIFICATION FamilySpec
CONSTANTS
    Family = {ann, ben}
    Processes = {server}
    MaxProfiles = 1
    MaxCrashes = 1
INVARIANT StartsSucceed
