CONSTANTS
    Server = {s1, s2}
    MaxVersion = 1
SPECIFICATION PromptSpec
PROPERTIES
    NoticeIsFollowed
