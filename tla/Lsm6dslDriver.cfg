CONSTANTS
    Fields <- SettingFields
    Statuses <- StatusFields
    Contents <- MCContents
    Focuses <- MCFocuses
    MaxChanges = 2
SPECIFICATION Spec
INVARIANTS ReadNotTorn
PROPERTY StoreSpec
